---- MODULE Spec2Model ----
(***************************************************************************)
(* A model of web3client's BaseClient: the notification subscriber        *)
(* (subscribe / async_subscribe with their helpers) and the transaction   *)
(* builder (build_base_tx with the fee estimation it performs).           *)
(***************************************************************************)
EXTENDS Integers, Sequences, FiniteSets, TLC

(***************************************************************************)
(* Python values.  An argument that may be None is a sequence of length   *)
(* at most one: <<>> is None and <<x>> is the value x.                    *)
(***************************************************************************)
NoneVal == <<>>
Some(x) == <<x>>
IsNone(o) == o = <<>>

\* Python truthiness of an optional list argument (its elements kept as a
\* set) and of an optional tuple argument: None, [] and () are falsy.
Falsy(o) == IsNone(o) \/ o[1] = {}
FalsyTuple(o) == IsNone(o) \/ o[1] = <<>>

(***************************************************************************)
(* Bounds of the model.                                                   *)
(***************************************************************************)
MaxConn == 3        \* connections one call of subscribe() opens
MaxFrames == 2      \* frames one call of subscribe() receives
MaxSubId == 2       \* subscription ids the node hands out: 1..MaxSubId
MaxValueWei == 5    \* transaction values, in wei: 0..MaxValueWei
WeiPerEther == 2    \* wei in one ether (10^18 in eth_utils), scaled down
MantissaBits == 9   \* bits of a float's significand (53 in CPython), scaled down
WeiPerGwei == 10    \* wei in one gwei (10^9 in eth_utils), scaled down
MaxFeeWei == 3      \* base fee and gas price the node reports, in wei
MaxPriorityWei == 3 \* priority fees (miner's tips), in wei

SubIds == 1..MaxSubId

(***************************************************************************)
(* Addresses.  Lower-case strings are the non-checksummed spelling of the *)
(* upper-case ones; the node reports checksummed addresses.               *)
(***************************************************************************)
to_checksum_address(s) ==
    CASE s = "a1" -> "A1"
      [] s = "a2" -> "A2"
      [] OTHER -> s

NoTx == [from |-> "", to |-> "", value |-> 0]
Txs == [from : {"A1", "A2"}, to : {"A1", "A2"}, value : 0..MaxValueWei]

(***************************************************************************)
(* Node URIs, as sequences of characters.                                 *)
(***************************************************************************)
WsUri == <<"w", "s", ":", "n">>
WssUri == <<"w", "s", "s", ":", "n">>
IpcUri == <<"n", ".", "i", "p", "c">>
HttpUri == <<"h", "t", "t", "p", ":", "n">>
NodeUris == {WsUri, WssUri, IpcUri, HttpUri}

startswith(s, p) == Len(s) >= Len(p) /\ SubSeq(s, 1, Len(p)) = p
endswith(s, p) ==
    Len(s) >= Len(p) /\ SubSeq(s, Len(s) - Len(p) + 1, Len(s)) = p

\* The guard leaving the check of the scheme to the connection attempt.
is_websocket_uri_unchecked(rpc_url) == Len(rpc_url) > 0

\* The guard at the top of subscribe() and async_subscribe().
is_websocket_uri(rpc_url) ==
    startswith(rpc_url, <<"w", "s">>) \/ endswith(rpc_url, <<".", "i", "p", "c">>)

(***************************************************************************)
(* The notification subscriber: BaseClient.subscribe (variant "sync") and *)
(* BaseClient.async_subscribe (variant "async").                          *)
(***************************************************************************)
VARIABLES
    cfg,              \* the arguments of the call and the client's node_uri
    pc,               \* where the call is
    conn,             \* connections opened so far (the current one is conn)
    subscription_id,  \* the local variable of the loop; 0 while unbound
    notification,     \* the frame ws.recv() returned, being processed
    tasks,            \* async variant: tasks created and not yet started,
                      \* each with the number of the frame it was created for
    err,              \* the exception that left the call, "" if none
    node,             \* the node: the id it issued on this connection and on
                      \* the one before (0 if none), its last handshake answer
    notif,            \* history: what the handling of the latest frame did
    hist              \* history: frames received, those of them carrying the
                      \* node's id, on_notification invocations started,
                      \* connection losses caught, on_connection_closed calls

subVars == <<cfg, pc, conn, subscription_id, notification, tasks, err, node,
             notif, hist>>

\* The transaction builder (declared here, defined after the subscriber).
VARIABLES
    client,           \* the attributes of the client that build_base_tx reads
    chain,            \* the node: its chain id, the base fee of its latest
                      \* block (None before EIP-1559), its gas price, the
                      \* transaction count of the user's address
    built,            \* history: the outcome of the latest build call
    sequel            \* history, kept when successive builds are observed:
                      \* whether the latest build call was the first, or
                      \* came with the same arguments as the one before it

buildVars == <<client, chain, built, sequel>>

\* The RPC log middleware (declared here, defined after the builder).
VARIABLES
    rpc_log,          \* the MemoryLog: rpc_whitelist, the three flags, entries
    rpc_env           \* history: the calls that went through the middleware
                      \* (with the times make_request ran for each and whether
                      \* the middleware returned) and the warnings logged

logVars == <<rpc_log, rpc_env>>

\* No log is attached while the subscriber or the builder is observed.
LogIdle == rpc_log = NoneVal /\ rpc_env = NoneVal

\* Concurrent builds and sends of one client (defined after the middleware).
VARIABLES
    race,             \* the node's pool of pending transactions (their
                      \* nonces) and, for each thread using the client, where
                      \* it is and the request its latest build returned
    poll,             \* a call of poll_tx: its arguments, where it is, the
                      \* time since it started, the fetches made, how it ended
    cloned            \* a client, its clone, and what was done to them

auxVars == <<race, poll, cloned>>

RaceIdle == race = NoneVal
PollIdle == poll = NoneVal
CloneIdle == cloned = NoneVal

AuxIdle == RaceIdle /\ PollIdle /\ CloneIdle

\* No client is built while the subscriber is observed, and no subscription
\* is made while the builder is.
BuildIdle ==
    client = NoneVal /\ chain = NoneVal /\ built = NoneVal /\ sequel = ""

SubscriptionTypes == {"newPendingTransactions", "logs", "newHeads"}

\* The arguments that do not interact with the filters: each value of each
\* argument occurs in one of these combinations.
Scenarios ==
    { [node_uri |-> WsUri, subscription_type |-> "newPendingTransactions",
       has_tx_on_fetch |-> FALSE, has_tx_on_fetch_error |-> FALSE,
       ws_timeout |-> NoneVal, on_connection_closed |-> "None"],
      [node_uri |-> WsUri, subscription_type |-> "newPendingTransactions",
       has_tx_on_fetch |-> TRUE, has_tx_on_fetch_error |-> TRUE,
       ws_timeout |-> NoneVal, on_connection_closed |-> "returns"],
      [node_uri |-> WssUri, subscription_type |-> "logs",
       has_tx_on_fetch |-> TRUE, has_tx_on_fetch_error |-> FALSE,
       ws_timeout |-> Some(1), on_connection_closed |-> "raises"],
      [node_uri |-> IpcUri, subscription_type |-> "newHeads",
       has_tx_on_fetch |-> FALSE, has_tx_on_fetch_error |-> TRUE,
       ws_timeout |-> Some(1), on_connection_closed |-> "returns"],
      [node_uri |-> HttpUri, subscription_type |-> "newPendingTransactions",
       has_tx_on_fetch |-> FALSE, has_tx_on_fetch_error |-> FALSE,
       ws_timeout |-> NoneVal, on_connection_closed |-> "None"] }

\* The arguments one call is made with: every combination of the variant,
\* once and the three transaction filters, in every scenario.
Configs ==
    { [variant |-> v, once |-> o, tx_from |-> f, tx_to |-> t, tx_value |-> w,
       node_uri |-> s.node_uri, subscription_type |-> s.subscription_type,
       has_tx_on_fetch |-> s.has_tx_on_fetch,
       has_tx_on_fetch_error |-> s.has_tx_on_fetch_error,
       ws_timeout |-> s.ws_timeout,
       on_connection_closed |-> s.on_connection_closed] :
      v \in {"sync", "async"}, o \in BOOLEAN,
      f \in {NoneVal, Some({"a1"})}, t \in {NoneVal, Some({"A1"})},
      w \in {NoneVal, Some(<<1, 2>>)}, s \in Scenarios }

\* A frame read from the websocket: malformed (not JSON, or no
\* params.subscription / params.result), or a notification of subscription sub.
Frames ==
    [wellformed : {TRUE}, sub : SubIds] \cup {[wellformed |-> FALSE, sub |-> 0]}

\* What the node answers to the polling of a transaction: found, or still
\* not found when the timeout expires.
PollResults ==
    [found : {TRUE}, tx : Txs] \cup {[found |-> FALSE, tx |-> NoTx]}

\* What the node answers to the eth_subscribe request.
SubscribeResponses ==
    [kind : {"result"}, id : SubIds]
        \cup {[kind |-> "unparseable", id |-> 0], [kind |-> "no_result", id |-> 0]}

\* filter_tx with the value range taken exclusive of its bounds.
filter_tx_exclusive(tx, from_, to, value) ==
    IF ~Falsy(from_) /\ tx.from \notin {to_checksum_address(s) : s \in from_[1]}
    THEN FALSE
    ELSE IF ~Falsy(to) /\ tx.to \notin {to_checksum_address(r) : r \in to[1]}
    THEN FALSE
    ELSE IF ~FalsyTuple(value)
            /\ (tx.value <= value[1][1] * WeiPerEther
                \/ tx.value >= value[1][2] * WeiPerEther)
    THEN FALSE
    ELSE TRUE

\* BaseClient.filter_tx
filter_tx(tx, from_, to, value) ==
    IF ~Falsy(from_) /\ tx.from \notin {to_checksum_address(s) : s \in from_[1]}
    THEN FALSE
    ELSE IF ~Falsy(to) /\ tx.to \notin {to_checksum_address(r) : r \in to[1]}
    THEN FALSE
    ELSE IF ~FalsyTuple(value)
            /\ (tx.value < value[1][1] * WeiPerEther
                \/ tx.value > value[1][2] * WeiPerEther)
    THEN FALSE
    ELSE TRUE

\* What handling one frame did: the exception it raised ("" if none), the
\* outcome of the transaction fetch, the callbacks it invoked and the third
\* argument on_notification got.
Eff(raised, fetch, tx, on_fetch, on_fetch_error, calls, arg) ==
    [raised |-> raised, fetch |-> fetch, tx |-> tx, on_fetch |-> on_fetch,
     on_fetch_error |-> on_fetch_error, calls |-> calls, arg |-> arg]

NoEff == Eff("", "none", NoTx, FALSE, FALSE, 0, NoneVal)

ErrSubscribe == "Web3ClientException: Failed to subscribe"
ErrMalformed == "Web3ClientException: Notification from websocket is malformed"
ErrNoTx == "Web3ClientException: Cannot extract transaction from notifications"

\* BaseClient.get_tx_from_notification: the kinds it can extract a hash from.
tx_supported(subscription_type) ==
    subscription_type \in {"newPendingTransactions", "logs"}

no_tx_filters ==
    Falsy(cfg.tx_from) /\ Falsy(cfg.tx_to) /\ FalsyTuple(cfg.tx_value)

\* fetch_and_filter letting a failed fetch leave the handler as an exception.
fetch_and_filter_fail_raises(r) ==
    IF ~tx_supported(cfg.subscription_type)
    THEN Eff(ErrNoTx, "unsupported", NoTx, FALSE, FALSE, 0, NoneVal)
    ELSE IF ~r.found
    THEN Eff("TransactionNotFound", "fail", NoTx, FALSE,
             cfg.has_tx_on_fetch_error, 0, NoneVal)
    ELSE IF filter_tx(r.tx, cfg.tx_from, cfg.tx_to, cfg.tx_value)
    THEN Eff("", "ok", r.tx, cfg.has_tx_on_fetch, FALSE, 1, Some(r.tx))
    ELSE Eff("", "ok", r.tx, cfg.has_tx_on_fetch, FALSE, 0, NoneVal)

\* The "complex case" of process_notification and the body of
\* on_notification_wrapper: fetch the transaction, filter, call back.
\* r is the node's answer to the polling.
fetch_and_filter(r) ==
    IF ~tx_supported(cfg.subscription_type)
    THEN Eff(ErrNoTx, "unsupported", NoTx, FALSE, FALSE, 0, NoneVal)
    ELSE IF ~r.found
    THEN Eff("", "fail", NoTx, FALSE, cfg.has_tx_on_fetch_error, 0, NoneVal)
    ELSE IF filter_tx(r.tx, cfg.tx_from, cfg.tx_to, cfg.tx_value)
    THEN Eff("", "ok", r.tx, cfg.has_tx_on_fetch, FALSE, 1, Some(r.tx))
    ELSE Eff("", "ok", r.tx, cfg.has_tx_on_fetch, FALSE, 0, NoneVal)

\* process_notification without the comparison of the frame's id.
process_notification_any_id(f, sid, r) ==
    IF ~f.wellformed
    THEN Eff(ErrMalformed, "none", NoTx, FALSE, FALSE, 0, NoneVal)
    ELSE IF no_tx_filters
    THEN Eff("", "none", NoTx, FALSE, FALSE, 1, NoneVal)
    ELSE fetch_and_filter(r)

\* subscribe.process_notification(notification, subscription_id)
process_notification(f, sid, r) ==
    IF ~f.wellformed
    THEN Eff(ErrMalformed, "none", NoTx, FALSE, FALSE, 0, NoneVal)
    ELSE IF f.sub # sid
    THEN NoEff
    ELSE IF no_tx_filters
    THEN Eff("", "none", NoTx, FALSE, FALSE, 1, NoneVal)
    ELSE fetch_and_filter(r)

\* async_subscribe.process_notification: the task it creates, "" if none.
async_process_notification(f, sid) ==
    IF ~f.wellformed
    THEN [raised |-> ErrMalformed, task |-> ""]
    ELSE IF f.sub # sid
    THEN [raised |-> "", task |-> ""]
    ELSE IF no_tx_filters
    THEN [raised |-> "", task |-> "on_notification"]
    ELSE [raised |-> "", task |-> "on_notification_wrapper"]

NoNotification == [wellformed |-> FALSE, sub |-> 0]

\* The frame a handling was for: matched says it carried the id the node
\* issued on the connection it came through, stale that it carried the id of
\* the connection before and not the current one.  by is "process" for the
\* receive loop and "task" for a task; created says a task was created.
Notif(by, matched, stale, created, e) ==
    [by |-> by, matched |-> matched, stale |-> stale, created |-> created,
     eff |-> e]

SubInit ==
    /\ cfg \in Configs
    /\ pc = "Start"
    /\ conn = 0
    /\ subscription_id = 0
    /\ notification = NoNotification
    /\ tasks = <<>>
    /\ err = ""
    /\ node = [id |-> 0, prev |-> 0, resp |-> ""]
    /\ notif = Notif("", FALSE, FALSE, FALSE, NoEff)
    /\ hist = [frames |-> 0, matched |-> 0, started |-> 0, closed |-> 0,
               closed_cb |-> 0]
    /\ BuildIdle
    /\ LogIdle
    /\ AuxIdle

\* The check of node_uri that opens subscribe() and async_subscribe().
CheckUri ==
    /\ pc = "Start"
    /\ IF is_websocket_uri(cfg.node_uri)
       THEN pc' = "Connecting" /\ err' = err
       ELSE pc' = "Raised" /\ err' = "ValueError"
    /\ UNCHANGED <<cfg, conn, subscription_id, notification, tasks, node, notif,
                   hist>>
    /\ UNCHANGED <<buildVars, logVars, auxVars>>

\* Connect resuming the receive loop with the id of the connection before,
\* when there is one, instead of subscribing again.
Connect_keeps_subscription ==
    /\ pc = "Connecting"
    /\ conn < MaxConn
    /\ conn' = conn + 1
    /\ pc' = IF subscription_id # 0 THEN "Listening" ELSE "Subscribing"
    /\ node' = [id |-> 0, prev |-> node.id, resp |-> ""]
    /\ UNCHANGED <<cfg, subscription_id, notification, tasks, err, notif, hist>>
    /\ UNCHANGED <<buildVars, logVars, auxVars>>

\* `async for ws in connect(self.node_uri)` yields the next connection; the
\* node has issued no id on it yet.
Connect ==
    /\ pc = "Connecting"
    /\ conn < MaxConn
    /\ conn' = conn + 1
    /\ pc' = "Subscribing"
    /\ node' = [id |-> 0, prev |-> node.id, resp |-> ""]
    /\ UNCHANGED <<cfg, subscription_id, notification, tasks, err, notif, hist>>
    /\ UNCHANGED <<buildVars, logVars, auxVars>>

\* Subscribe leaving a failed handshake to the reconnect loop.
Subscribe_retries ==
    /\ pc = "Subscribing"
    /\ \E resp \in SubscribeResponses :
          IF resp.kind = "result"
          THEN /\ subscription_id' = resp.id
               /\ node' = [node EXCEPT !.id = resp.id, !.resp = resp.kind]
               /\ pc' = "Listening"
          ELSE /\ pc' = "Connecting"
               /\ node' = [node EXCEPT !.resp = resp.kind]
               /\ UNCHANGED subscription_id
    /\ UNCHANGED <<cfg, conn, notification, tasks, err, notif, hist>>
    /\ UNCHANGED <<buildVars, logVars, auxVars>>

\* subscribe_to_notification: send eth_subscribe, await the response, extract
\* its "result".  A response without it raises Web3ClientException, a
\* BaseException that no handler of subscribe() catches.
Subscribe ==
    /\ pc = "Subscribing"
    /\ \E resp \in SubscribeResponses :
          IF resp.kind = "result"
          THEN /\ subscription_id' = resp.id
               /\ node' = [node EXCEPT !.id = resp.id, !.resp = resp.kind]
               /\ pc' = "Listening"
               /\ err' = err
          ELSE /\ pc' = "Raised"
               /\ err' = ErrSubscribe
               /\ node' = [node EXCEPT !.resp = resp.kind]
               /\ UNCHANGED subscription_id
    /\ UNCHANGED <<cfg, conn, notification, tasks, notif, hist>>
    /\ UNCHANGED <<buildVars, logVars, auxVars>>

\* ConnectionClosed going on to reconnect when on_connection_closed raises.
ConnectionClosed_swallows_raise ==
    /\ pc \in {"Subscribing", "Listening"}
    /\ hist' = [hist EXCEPT !.closed = @ + 1,
                            !.closed_cb = IF cfg.on_connection_closed = "None"
                                          THEN @ ELSE @ + 1]
    /\ pc' = "Connecting"
    /\ UNCHANGED <<cfg, conn, subscription_id, notification, tasks, err, node,
                   notif>>
    /\ UNCHANGED <<buildVars, logVars, auxVars>>

\* The except clause of the loop: ConnectionClosedError or ConnectionClosedOK
\* raised by an await of the try block (the handshake, ws.recv()).
ConnectionClosed ==
    /\ pc \in {"Subscribing", "Listening"}
    /\ IF cfg.on_connection_closed = "None"
       THEN /\ pc' = "Connecting"
            /\ err' = err
            /\ hist' = [hist EXCEPT !.closed = @ + 1]
       ELSE /\ hist' = [hist EXCEPT !.closed = @ + 1, !.closed_cb = @ + 1]
            /\ IF cfg.on_connection_closed = "raises"
               THEN pc' = "Raised" /\ err' = "on_connection_closed"
               ELSE pc' = "Connecting" /\ err' = err
    /\ UNCHANGED <<cfg, conn, subscription_id, notification, tasks, node, notif>>
    /\ UNCHANGED <<buildVars, logVars, auxVars>>

\* Whether frame f carries the id the node issued on this connection, and
\* whether it carries the id of the connection before instead.
Matched(f) == f.wellformed /\ f.sub = node.id
Stale(f) == f.wellformed /\ f.sub = node.prev /\ f.sub # node.id

\* asyncio.wait_for(ws.recv(), timeout=ws_timeout) returns a frame.
Recv ==
    /\ pc = "Listening"
    /\ hist.frames < MaxFrames
    /\ \E f \in Frames :
          /\ notification' = f
          /\ hist' = [hist EXCEPT !.frames = @ + 1,
                                  !.matched = IF Matched(f) THEN @ + 1 ELSE @]
    /\ pc' = "Processing"
    /\ UNCHANGED <<cfg, conn, subscription_id, tasks, err, node, notif>>
    /\ UNCHANGED <<buildVars, logVars, auxVars>>

\* RecvTimeout with a timeout in force also when ws_timeout is None.
RecvTimeout_always ==
    /\ pc = "Listening"
    /\ pc' = "Raised"
    /\ err' = "TimeoutError"
    /\ UNCHANGED <<cfg, conn, subscription_id, notification, tasks, node, notif,
                   hist>>
    /\ UNCHANGED <<buildVars, logVars, auxVars>>

\* asyncio.wait_for raises asyncio.TimeoutError, which no handler catches.
RecvTimeout ==
    /\ pc = "Listening"
    /\ ~IsNone(cfg.ws_timeout)
    /\ pc' = "Raised"
    /\ err' = "TimeoutError"
    /\ UNCHANGED <<cfg, conn, subscription_id, notification, tasks, node, notif,
                   hist>>
    /\ UNCHANGED <<buildVars, logVars, auxVars>>

\* The statement after process_notification: `if once: return`.
after_processing(raised) ==
    IF raised # "" THEN "Raised"
    ELSE IF cfg.once THEN "Returned"
    ELSE "Listening"

\* Process handing the callback over to a task, as async_subscribe() does.
Process_schedules ==
    /\ pc = "Processing"
    /\ cfg.variant = "sync"
    /\ LET a == async_process_notification(notification, subscription_id) IN
          /\ tasks' = IF a.task = "" THEN tasks
                      ELSE Append(tasks, [kind |-> a.task,
                                          matched |-> Matched(notification),
                                          frame |-> hist.frames])
          /\ notif' = Notif("process", Matched(notification),
                            Stale(notification), a.task # "", NoEff)
          /\ err' = a.raised
          /\ pc' = after_processing(a.raised)
    /\ notification' = NoNotification
    /\ UNCHANGED <<cfg, conn, subscription_id, node, hist>>
    /\ UNCHANGED <<buildVars, logVars, auxVars>>

\* subscribe(): process_notification(notification, subscription_id), then
\* `if once: return`.
Process ==
    /\ pc = "Processing"
    /\ cfg.variant = "sync"
    /\ \E r \in PollResults :
          LET e == process_notification(notification, subscription_id, r) IN
          /\ notif' = Notif("process", Matched(notification),
                            Stale(notification), FALSE, e)
          /\ hist' = [hist EXCEPT !.started = @ + e.calls]
          /\ err' = e.raised
          /\ pc' = after_processing(e.raised)
    /\ notification' = NoNotification
    /\ UNCHANGED <<cfg, conn, subscription_id, tasks, node>>
    /\ UNCHANGED <<buildVars, logVars, auxVars>>

\* async_subscribe(): await process_notification(...), which creates a task,
\* then `if once: return`.
AsyncProcess ==
    /\ pc = "Processing"
    /\ cfg.variant = "async"
    /\ LET a == async_process_notification(notification, subscription_id) IN
          /\ tasks' = IF a.task = "" THEN tasks
                      ELSE Append(tasks, [kind |-> a.task,
                                          matched |-> Matched(notification),
                                          frame |-> hist.frames])
          /\ notif' = Notif("process", Matched(notification),
                            Stale(notification), a.task # "", NoEff)
          /\ err' = a.raised
          /\ pc' = after_processing(a.raised)
    /\ notification' = NoNotification
    /\ UNCHANGED <<cfg, conn, subscription_id, node, hist>>
    /\ UNCHANGED <<buildVars, logVars, auxVars>>

\* RunTask with an event loop that starts the newest task first.
RunTask_newest_first ==
    /\ pc # "Processing"
    /\ tasks # <<>>
    /\ \E r \in PollResults :
          LET t == tasks[Len(tasks)]
              e == IF t.kind = "on_notification"
                   THEN Eff("", "none", NoTx, FALSE, FALSE, 1, NoneVal)
                   ELSE fetch_and_filter(r)
          IN /\ notif' = Notif("task", t.matched, FALSE, FALSE, e)
             /\ hist' = [hist EXCEPT !.started = @ + e.calls]
    /\ tasks' = SubSeq(tasks, 1, Len(tasks) - 1)
    /\ UNCHANGED <<cfg, pc, conn, subscription_id, notification, err, node>>
    /\ UNCHANGED <<buildVars, logVars, auxVars>>

\* The event loop starts the oldest task while the caller's coroutine is
\* suspended or over.  An exception raised in a task stays in the task.
RunTask ==
    /\ pc # "Processing"
    /\ tasks # <<>>
    /\ \E r \in PollResults :
          LET t == Head(tasks)
              e == IF t.kind = "on_notification"
                   THEN Eff("", "none", NoTx, FALSE, FALSE, 1, NoneVal)
                   ELSE fetch_and_filter(r)
          IN /\ notif' = Notif("task", t.matched, FALSE, FALSE, e)
             /\ hist' = [hist EXCEPT !.started = @ + e.calls]
    /\ tasks' = Tail(tasks)
    /\ UNCHANGED <<cfg, pc, conn, subscription_id, notification, err, node>>
    /\ UNCHANGED <<buildVars, logVars, auxVars>>

SubNext ==
    \/ CheckUri
    \/ Connect
    \/ Subscribe
    \/ ConnectionClosed
    \/ Recv
    \/ RecvTimeout
    \/ Process
    \/ AsyncProcess
    \/ RunTask

(***************************************************************************)
(* Floats.  A Python float is a binary floating-point number with a       *)
(* significand of MantissaBits bits: <<m, e>> stands for m / 2^e, with    *)
(* 2^(MantissaBits-1) <= m < 2^MantissaBits, and <<0, 0>> for 0.0.  Every  *)
(* operation rounds its exact result to the nearest float, ties to even.  *)
(***************************************************************************)
Zero == <<0, 0>>

\* float("inf"): above every other float.  No finite float of the model has
\* a negative exponent (they are all below 2^(MantissaBits-1)).
Inf == <<1, 0 - 1>>

\* The largest exponent: the smallest positive number rounded is 1/WeiPerGwei.
MaxExp == MantissaBits + 3

\* The float nearest to the rational a/b (a >= 0, b > 0).
Fl(a, b) ==
    IF a = 0 THEN Zero
    ELSE LET e == CHOOSE k \in 0..MaxExp :
                     /\ a * 2^k >= b * 2^(MantissaBits - 1)
                     /\ (k = 0 \/ a * 2^(k - 1) < b * 2^(MantissaBits - 1))
             n == a * 2^e
             q == n \div b
             r == n % b
             m == IF 2 * r > b \/ (2 * r = b /\ q % 2 = 1) THEN q + 1 ELSE q
         IN IF m = 2^MantissaBits THEN <<2^(MantissaBits - 1), e - 1>>
            ELSE <<m, e>>

\* x + y and 2 * x on floats.
FAdd(x, y) ==
    LET E == IF x[2] > y[2] THEN x[2] ELSE y[2]
    IN Fl(x[1] * 2^(E - x[2]) + y[1] * 2^(E - y[2]), 2^E)
FDouble(x) == Fl(2 * x[1], 2^(x[2]))

\* x > y on floats.
FGt(x, y) ==
    IF y = Inf THEN FALSE
    ELSE IF x = Inf THEN TRUE
    ELSE x[1] * 2^(y[2]) > y[1] * 2^(x[2])

\* Python truthiness of an optional int and of an optional float.
FalsyInt(o) == IsNone(o) \/ o[1] = 0
FalsyFloat(o) == IsNone(o) \/ o[1] = Zero

\* The amounts in wei that the conversions of the model meet.
WeiGrid == 0..(2 * MaxFeeWei + MaxPriorityWei + 1)

\* float(Web3.from_wei(w, "gwei")): from_wei gives the exact Decimal
\* w / WeiPerGwei (the int 0 for 0), float() rounds it.
from_wei_float(w) == Fl(w, WeiPerGwei)

\* The floats of the amounts of the grid, in gwei.
gwei == [w \in WeiGrid |-> from_wei_float(w)]

\* Web3.to_wei(x, "gwei") of a float x: int(Decimal(str(x)) * WeiPerGwei),
\* truncated.  str(x) is the shortest decimal that float() maps back to x:
\* the decimal w / WeiPerGwei when x is the float of a whole number w of wei,
\* else a decimal on the same side of every such number as x itself.
to_wei(x) ==
    IF \E w \in WeiGrid : gwei[w] = x
    THEN CHOOSE w \in WeiGrid : gwei[w] = x
    ELSE (x[1] * WeiPerGwei) \div 2^(x[2])

(***************************************************************************)
(* The transaction builder: BaseClient.build_base_tx on a client made by  *)
(* BaseClient.__init__ from its arguments and the attributes of its class.*)
(***************************************************************************)
TxTypes == {NoneVal, Some(0), Some(1), Some(2), Some(3)}
PriorityFees == {gwei[w] : w \in 0..MaxPriorityWei}
Ceilings == {gwei[w] : w \in 0..MaxFeeWei}
Nonces == {0}
GasLimits == {21}
user_address == "A1"

\* The attributes a class sets: those of BaseClient (tx_type 2, no limit for
\* the fee) or those of a subclass that overrides them.
ClassAttributes ==
    [chain_id : {NoneVal},
     tx_type : {Some(2), NoneVal, Some(0)},
     max_priority_fee_in_gwei : {gwei[1]},
     upper_limit_for_base_fee_in_gwei : {Some(Inf), NoneVal, Some(Zero)}]

\* The arguments of the constructor.
InitArgs ==
    [chain_id : {NoneVal, Some(1), Some(5)},
     tx_type : TxTypes,
     max_priority_fee_in_gwei : {NoneVal, Some(gwei[MaxPriorityWei])},
     upper_limit_for_base_fee_in_gwei :
         {NoneVal} \cup {Some(f) : f \in Ceilings}]

\* __init__: each attribute is `argument or class attribute`.
init_attributes(a, cls) ==
    [chain_id |-> IF FalsyInt(a.chain_id) THEN cls.chain_id ELSE a.chain_id,
     tx_type |-> IF FalsyInt(a.tx_type) THEN cls.tx_type ELSE a.tx_type,
     max_priority_fee_in_gwei |->
         IF FalsyFloat(a.max_priority_fee_in_gwei)
         THEN cls.max_priority_fee_in_gwei
         ELSE a.max_priority_fee_in_gwei[1],
     upper_limit_for_base_fee_in_gwei |->
         IF FalsyFloat(a.upper_limit_for_base_fee_in_gwei)
         THEN cls.upper_limit_for_base_fee_in_gwei
         ELSE a.upper_limit_for_base_fee_in_gwei]

\* The states of the node.  Each base fee and each gas price occurs; a node
\* whose latest block has a base fee reports a gas price that differs from it
\* (unless both are in the middle of the range).
Chains ==
    { ch \in [chain_id : {5},
              base_fee : {NoneVal} \cup {Some(w) : w \in 0..MaxFeeWei},
              gas_price : 0..MaxFeeWei,
              nonce : {1},
              gas_estimate : {22}] :
        IsNone(ch.base_fee) \/ ch.gas_price = MaxFeeWei - ch.base_fee[1] }

\* The arguments of build_base_tx.
BuildArgs ==
    [nonce : {NoneVal} \cup {Some(n) : n \in Nonces},
     gas_limit : {NoneVal} \cup {Some(g) : g \in GasLimits},
     max_priority_fee_in_gwei : {NoneVal} \cup {Some(f) : f \in PriorityFees}]

\* supports_eip1559: latest_block.get("baseFeePerGas") is not None.
supports_eip1559(ch) == ~IsNone(ch.base_fee)

\* infer_tx_type taking every node to support EIP-1559.
infer_tx_type_assumes_eip1559(c, ch) == 2

\* infer_tx_type: 2 on mainnet without asking, else what the node supports.
infer_tx_type(c, ch) ==
    IF c.chain_id = Some(1) THEN 2
    ELSE IF supports_eip1559(ch) THEN 2 ELSE 0

\* estimate_max_fee_in_gwei: 2 * base_fee_in_gwei + max_priority_fee_in_gwei
\* in floats; a latest block without baseFeePerGas raises KeyError.
estimate_max_fee_in_gwei(ch, max_priority_fee_in_gwei) ==
    IF IsNone(ch.base_fee)
    THEN [raised |-> "KeyError", max_fee |-> Zero, base_fee |-> Zero]
    ELSE LET base_fee_in_gwei == from_wei_float(ch.base_fee[1])
         IN [raised |-> "",
             max_fee |-> FAdd(FDouble(base_fee_in_gwei),
                              max_priority_fee_in_gwei),
             base_fee |-> base_fee_in_gwei]

\* An exception: its class and, for TransactionTooExpensive, the two values
\* of its message.
Exc(raised, fee, max) == [raised |-> raised, fee |-> fee, max |-> max]
NoExc == Exc("", NoneVal, NoneVal)

\* raise_if_gas_fee_too_high with the limit itself counted as too high.
raise_if_gas_fee_too_high_inclusive(upper_limit, gas_fee_in_gwei) ==
    IF /\ ~IsNone(upper_limit)
       /\ (FGt(gas_fee_in_gwei, upper_limit[1])
           \/ gas_fee_in_gwei = upper_limit[1])
    THEN Exc("TransactionTooExpensive", Some(gas_fee_in_gwei), upper_limit)
    ELSE NoExc

\* raise_if_gas_fee_too_high, given self.upper_limit_for_base_fee_in_gwei.
raise_if_gas_fee_too_high(upper_limit, gas_fee_in_gwei) ==
    IF ~IsNone(upper_limit) /\ FGt(gas_fee_in_gwei, upper_limit[1])
    THEN Exc("TransactionTooExpensive", Some(gas_fee_in_gwei), upper_limit)
    ELSE NoExc

\* The dictionary build_base_tx fills; a key that is not set is None.
EmptyTx ==
    [chainId |-> NoneVal, from |-> NoneVal, type |-> NoneVal,
     gasPrice |-> NoneVal, maxPriorityFeePerGas |-> NoneVal,
     maxFeePerGas |-> NoneVal, nonce |-> NoneVal, gas |-> NoneVal,
     to |-> NoneVal, value |-> NoneVal]

\* The outcome of a call: the exception it raised or the dictionary it
\* returned, the type it resolved, the priority fee it used (None on the
\* legacy path), the RPC methods it called, in order; the method called and its
\* arguments are filled in by the caller.
Built(exc, tx, tx_type, priority, rpc) ==
    [status |-> IF exc.raised = "" THEN "ok" ELSE "raised",
     exc |-> exc, tx |-> IF exc.raised = "" THEN tx ELSE EmptyTx,
     tx_type |-> tx_type, priority |-> priority, rpc |-> rpc,
     method |-> "", args |-> NoneVal]

\* No call yet.
NotBuilt ==
    [status |-> "none", exc |-> NoExc, tx |-> EmptyTx, tx_type |-> 0,
     priority |-> NoneVal, rpc |-> <<>>, method |-> "", args |-> NoneVal]

\* finish_base_tx setting gasPrice in every transaction.
finish_base_tx_prices_gas(c, ch, a, tx, tx_type, priority, gas_fee_in_gwei, rpc) ==
    LET exc == raise_if_gas_fee_too_high(c.upper_limit_for_base_fee_in_gwei,
                                         gas_fee_in_gwei)
        tx1 == [tx EXCEPT !.nonce = IF IsNone(a.nonce) THEN Some(ch.nonce)
                                    ELSE a.nonce,
                          !.gas = a.gas_limit,
                          !.gasPrice = Some(ch.gas_price)]
        rpc1 == IF IsNone(a.nonce) THEN Append(rpc, "eth_getTransactionCount")
                ELSE rpc
    IN IF exc.raised # "" THEN Built(exc, tx, tx_type, priority, rpc)
       ELSE Built(NoExc, tx1, tx_type, priority, rpc1)

\* finish_base_tx with `nonce or self.get_nonce()`.
finish_base_tx_falsy_nonce(c, ch, a, tx, tx_type, priority, gas_fee_in_gwei, rpc) ==
    LET exc == raise_if_gas_fee_too_high(c.upper_limit_for_base_fee_in_gwei,
                                         gas_fee_in_gwei)
        tx1 == [tx EXCEPT !.nonce = IF FalsyInt(a.nonce) THEN Some(ch.nonce)
                                    ELSE a.nonce,
                          !.gas = a.gas_limit]
        rpc1 == IF FalsyInt(a.nonce)
                THEN Append(rpc, "eth_getTransactionCount")
                ELSE rpc
    IN IF exc.raised # "" THEN Built(exc, tx, tx_type, priority, rpc)
       ELSE Built(NoExc, tx1, tx_type, priority, rpc1)

\* build_base_tx, from the fee check on: the nonce and the gas limit.
finish_base_tx(c, ch, a, tx, tx_type, priority, gas_fee_in_gwei, rpc) ==
    LET exc == raise_if_gas_fee_too_high(c.upper_limit_for_base_fee_in_gwei,
                                         gas_fee_in_gwei)
        tx1 == [tx EXCEPT !.nonce = IF IsNone(a.nonce) THEN Some(ch.nonce)
                                    ELSE a.nonce,
                          !.gas = a.gas_limit]
        rpc1 == IF IsNone(a.nonce) THEN Append(rpc, "eth_getTransactionCount")
                ELSE rpc
    IN IF exc.raised # "" THEN Built(exc, tx, tx_type, priority, rpc)
       ELSE Built(NoExc, tx1, tx_type, priority, rpc1)

\* build_base_tx building a legacy transaction for every type but 2.
build_base_tx_legacy_by_default(c, ch, a) ==
    LET tx0 == [EmptyTx EXCEPT
                  !.chainId = IF FalsyInt(c.chain_id) THEN Some(ch.chain_id)
                              ELSE c.chain_id,
                  !.from = Some(user_address)]
        rpc0 == IF FalsyInt(c.chain_id) THEN <<"eth_chainId">> ELSE <<>>
        inferred == FalsyInt(c.tx_type)
        tx_type == IF inferred THEN infer_tx_type(c, ch) ELSE c.tx_type[1]
        rpc1 == IF inferred /\ c.chain_id # Some(1)
                THEN Append(rpc0, "eth_getBlockByNumber") ELSE rpc0
    IN IF tx_type # 2
       THEN finish_base_tx(c, ch, a,
                           [tx0 EXCEPT !.gasPrice = Some(ch.gas_price)],
                           tx_type, NoneVal, from_wei_float(ch.gas_price),
                           Append(rpc1, "eth_gasPrice"))
       ELSE IF tx_type = 2
       THEN LET max_priority_fee_in_gwei ==
                    IF FalsyFloat(a.max_priority_fee_in_gwei)
                    THEN c.max_priority_fee_in_gwei
                    ELSE a.max_priority_fee_in_gwei[1]
                est == estimate_max_fee_in_gwei(ch, max_priority_fee_in_gwei)
                rpc2 == Append(rpc1, "eth_getBlockByNumber")
                tx2 == [tx0 EXCEPT
                          !.type = Some(2),
                          !.maxPriorityFeePerGas =
                              Some(to_wei(max_priority_fee_in_gwei)),
                          !.maxFeePerGas = Some(to_wei(est.max_fee))]
            IN IF est.raised # ""
               THEN Built(Exc(est.raised, NoneVal, NoneVal), tx0, tx_type,
                          Some(max_priority_fee_in_gwei), rpc2)
               ELSE finish_base_tx(c, ch, a, tx2, tx_type,
                                   Some(max_priority_fee_in_gwei),
                                   est.base_fee, rpc2)
       ELSE Built(Exc("Web3ClientException: not supported", NoneVal, NoneVal),
                  tx0, tx_type, NoneVal, rpc1)

\* build_base_tx(nonce, gas_limit, max_priority_fee_in_gwei).
build_base_tx(c, ch, a) ==
    LET tx0 == [EmptyTx EXCEPT
                  !.chainId = IF FalsyInt(c.chain_id) THEN Some(ch.chain_id)
                              ELSE c.chain_id,
                  !.from = Some(user_address)]
        rpc0 == IF FalsyInt(c.chain_id) THEN <<"eth_chainId">> ELSE <<>>
        inferred == FalsyInt(c.tx_type)
        tx_type == IF inferred THEN infer_tx_type(c, ch) ELSE c.tx_type[1]
        rpc1 == IF inferred /\ c.chain_id # Some(1)
                THEN Append(rpc0, "eth_getBlockByNumber") ELSE rpc0
    IN IF tx_type = 0 \/ tx_type = 1
       THEN finish_base_tx(c, ch, a,
                           [tx0 EXCEPT !.gasPrice = Some(ch.gas_price)],
                           tx_type, NoneVal, from_wei_float(ch.gas_price),
                           Append(rpc1, "eth_gasPrice"))
       ELSE IF tx_type = 2
       THEN LET max_priority_fee_in_gwei ==
                    IF FalsyFloat(a.max_priority_fee_in_gwei)
                    THEN c.max_priority_fee_in_gwei
                    ELSE a.max_priority_fee_in_gwei[1]
                est == estimate_max_fee_in_gwei(ch, max_priority_fee_in_gwei)
                rpc2 == Append(rpc1, "eth_getBlockByNumber")
                tx2 == [tx0 EXCEPT
                          !.type = Some(2),
                          !.maxPriorityFeePerGas =
                              Some(to_wei(max_priority_fee_in_gwei)),
                          !.maxFeePerGas = Some(to_wei(est.max_fee))]
            IN IF est.raised # ""
               THEN Built(Exc(est.raised, NoneVal, NoneVal), tx0, tx_type,
                          Some(max_priority_fee_in_gwei), rpc2)
               ELSE finish_base_tx(c, ch, a, tx2, tx_type,
                                   Some(max_priority_fee_in_gwei),
                                   est.base_fee, rpc2)
       ELSE Built(Exc("Web3ClientException: not supported", NoneVal, NoneVal),
                  tx0, tx_type, NoneVal, rpc1)

\* estimate_gas_for_transfer: eth_estimateGas for a transfer from the user.
estimate_gas_for_transfer(ch, to, value_in_wei) == ch.gas_estimate

\* build_tx_with_value_in_wei(to, value_in_wei, nonce, gas_limit,
\* max_priority_fee_in_gwei): the base transaction, then
\* `tx | extra_params`, in which the keys of extra_params win.
build_tx_with_value_in_wei(c, ch, to, value_in_wei, a) ==
    LET b == build_base_tx(c, ch, a)
    IN IF b.status # "ok" THEN b
       ELSE [b EXCEPT
               !.tx = [b.tx EXCEPT
                         !.to = Some(to_checksum_address(to)),
                         !.value = Some(value_in_wei),
                         !.gas = Some(estimate_gas_for_transfer(
                                          ch, to, value_in_wei))],
               !.rpc = Append(b.rpc, "eth_estimateGas")]

\* build_tx_with_value(to, value_in_eth, ...): the value converted to wei.
build_tx_with_value(c, ch, to, value_in_eth, a) ==
    build_tx_with_value_in_wei(c, ch, to, value_in_eth * WeiPerEther, a)

\* build_contract_tx(contract_function, value_in_wei, ...), up to the
\* dictionary it hands to contract_function.build_transaction.
build_contract_tx(c, ch, value_in_wei, a) ==
    LET base_tx == build_base_tx(c, ch, a)
    IN IF base_tx.status # "ok" \/ FalsyInt(value_in_wei) THEN base_tx
       ELSE [base_tx EXCEPT !.tx = [base_tx.tx EXCEPT !.value = value_in_wei]]

\* The arguments the value and contract builds pass on to build_base_tx, the
\* recipients and the values of the model.
TransferArgs == {a \in BuildArgs : IsNone(a.max_priority_fee_in_gwei)}
Recipients == {"a2"}
ValuesInEth == {1}
ValuesInWei == {1}
ContractValues == {NoneVal, Some(0), Some(1)}

\* The outcome b of a call of method with arguments args.
Outcome(method, args, b) == [b EXCEPT !.method = method, !.args = args]

\* The arguments of a call, for the history: those passed on to
\* build_base_tx, the recipient ("" if none) and the value (None if none).
Args(a, to, value) == [base |-> a, to |-> to, value |-> value]

\* The clients __init__ can make.
Clients ==
    {init_attributes(a, cls) : a \in InitArgs, cls \in ClassAttributes}

\* The clients watched over successive builds: those with the fee attributes
\* of BaseClient (tip 0.01 gwei, no limit) and a tx_type that is unset or
\* supported, of any chain_id.
RebuildClients ==
    {c \in Clients : /\ c.upper_limit_for_base_fee_in_gwei = Some(Inf)
                     /\ c.max_priority_fee_in_gwei = gwei[1]
                     /\ c.tx_type \in {NoneVal, Some(0), Some(2)}}

SubIdle ==
    /\ cfg = NoneVal
    /\ pc = "Start"
    /\ conn = 0
    /\ subscription_id = 0
    /\ notification = NoNotification
    /\ tasks = <<>>
    /\ err = ""
    /\ node = NoneVal
    /\ notif = NoneVal
    /\ hist = NoneVal

\* A client after construction, connected to a node; nothing built yet.
BuildInit ==
    /\ client \in Clients
    /\ chain \in Chains
    /\ built = NotBuilt
    /\ sequel = ""
    /\ SubIdle
    /\ LogIdle
    /\ AuxIdle

\* A call of build_base_tx.
BuildBaseTx ==
    /\ \E a \in BuildArgs :
          built' = Outcome("build_base_tx", Args(a, "", NoneVal),
                           build_base_tx(client, chain, a))
    /\ UNCHANGED <<client, chain>>
    /\ UNCHANGED <<subVars, logVars, auxVars>>

\* A call of build_tx_with_value.
BuildTxWithValue ==
    /\ \E a \in TransferArgs, to \in Recipients, value_in_eth \in ValuesInEth :
          built' = Outcome("build_tx_with_value",
                           Args(a, to, Some(value_in_eth)),
                           build_tx_with_value(client, chain, to,
                                               value_in_eth, a))
    /\ UNCHANGED <<client, chain>>
    /\ UNCHANGED <<subVars, logVars, auxVars>>

\* A call of build_tx_with_value_in_wei.
BuildTxWithValueInWei ==
    /\ \E a \in TransferArgs, to \in Recipients, value_in_wei \in ValuesInWei :
          built' = Outcome("build_tx_with_value_in_wei",
                           Args(a, to, Some(value_in_wei)),
                           build_tx_with_value_in_wei(client, chain, to,
                                                      value_in_wei, a))
    /\ UNCHANGED <<client, chain>>
    /\ UNCHANGED <<subVars, logVars, auxVars>>

\* A call of build_contract_tx.
BuildContractTx ==
    /\ \E a \in TransferArgs, value_in_wei \in ContractValues :
          built' = Outcome("build_contract_tx",
                           Args(a, "", value_in_wei),
                           build_contract_tx(client, chain, value_in_wei, a))
    /\ UNCHANGED <<client, chain>>
    /\ UNCHANGED <<subVars, logVars, auxVars>>

\* The builds of one client, each looked at on its own.
BuildNext ==
    \/ BuildBaseTx /\ UNCHANGED sequel
    \/ BuildTxWithValue /\ UNCHANGED sequel
    \/ BuildTxWithValueInWei /\ UNCHANGED sequel
    \/ BuildContractTx /\ UNCHANGED sequel

\* The node moves on: a new latest block with its base fee (a chain that has
\* EIP-1559 keeps it) and another gas price.
NewBlock ==
    /\ \E ch \in Chains :
          /\ ~IsNone(chain.base_fee) => ~IsNone(ch.base_fee)
          /\ chain' = ch
    /\ chain' # chain
    /\ UNCHANGED <<client, built, sequel>>
    /\ UNCHANGED <<subVars, logVars, auxVars>>

\* How the build just made follows the one before it.
Sequel ==
    sequel' = IF built.status = "none" THEN "first"
              ELSE IF built'.method = built.method /\ built'.args = built.args
              THEN "same"
              ELSE "other"

RebuildInit ==
    /\ client \in RebuildClients
    /\ chain \in Chains
    /\ built = NotBuilt
    /\ sequel = ""
    /\ SubIdle
    /\ LogIdle
    /\ AuxIdle

\* The builds of one client one after the other, while the node moves on.
RebuildNext ==
    \/ BuildBaseTx /\ Sequel
    \/ BuildTxWithValue /\ Sequel
    \/ BuildTxWithValueInWei /\ Sequel
    \/ BuildContractTx /\ Sequel
    \/ NewBlock

(***************************************************************************)
(* The RPC log middleware (middlewares/rpc_log_middleware.py).  One call   *)
(* of the middleware is synchronous: it logs the request, makes the        *)
(* request, handles the response (which may itself call the node through   *)
(* the same middleware) and returns the response.                          *)
(***************************************************************************)

MaxRpcCalls == 2    \* calls already made when the caller makes another one

TX_WRITE_METHODS == {"eth_sendRawTransaction", "eth_sendTransaction"}

\* The methods the caller invokes.
RpcMethods ==
    {"eth_estimateGas", "eth_sendRawTransaction", "eth_call",
     "eth_sendTransaction", "eth_getBalance"}

\* The allow-lists a log is constructed with: None, [] and lists of methods.
Whitelists ==
    {NoneVal, Some({}), Some({"eth_estimateGas", "eth_sendRawTransaction"}),
     Some({"eth_sendRawTransaction"}), Some({"eth_call"})}

\* MemoryLog(rpc_whitelist, fetch_tx_data, fetch_tx_receipt,
\* parse_raw_tx_data), its entries empty.
MemoryLogs ==
    [rpc_whitelist : Whitelists, fetch_tx_data : BOOLEAN,
     fetch_tx_receipt : BOOLEAN, parse_raw_tx_data : BOOLEAN,
     entries : {<<>>}]

\* One call as the caller and the node make it: the method; whether
\* params[0] is a raw transaction that decodes; the node's response (a
\* result, an error, or a null result); whether the node knows the
\* transaction and its receipt when they are fetched afterwards.
RpcRequest(method, decodes, response, tx_found, receipt_found, nested) ==
    [method |-> method, decodes |-> decodes, response |-> response,
     tx_found |-> tx_found, receipt_found |-> receipt_found,
     nested |-> nested]

\* The calls of the caller.  Only eth_sendRawTransaction has a raw
\* transaction for params[0]; a node answers with a result, an error or a
\* null result; what it has to be found afterwards matters after a sending
\* method only.
RpcRequests ==
    {req \in {RpcRequest(m, d, r, t, c, FALSE) :
                 m \in RpcMethods, d \in BOOLEAN,
                 r \in {"result", "error", "null"},
                 t \in BOOLEAN, c \in BOOLEAN} :
        /\ req.decodes => req.method = "eth_sendRawTransaction"
        /\ (req.tx_found \/ req.receipt_found) =>
              req.method \in TX_WRITE_METHODS}

NoCalls == [calls |-> <<>>, warnings |-> 0]

\* is_rpc_response_ok taking every response for a success.
is_rpc_response_ok_always(response) == TRUE

\* is_rpc_response_ok: no error, and a result that is not None.
is_rpc_response_ok(response) == response = "result"

\* should_log_request logging the requests of the sending methods only.
should_log_request_tx_only(log, method) == method \in TX_WRITE_METHODS

should_log_request(log, method) ==
    IF IsNone(log.rpc_whitelist) THEN TRUE
    ELSE method \in log.rpc_whitelist[1]

should_log_response(log, method) ==
    IF IsNone(log.rpc_whitelist) THEN TRUE
    ELSE method \in log.rpc_whitelist[1]

\* The outcome of parse_raw_tx(params[0]): the decoded view, or an exception.
parse_raw_tx(req) ==
    IF req.decodes
    THEN [raised |-> "", value |-> Some([from |-> "from", to |-> "to",
                                         value |-> "value", data |-> "data"])]
    ELSE [raised |-> "Exception", value |-> NoneVal]

RequestEntry(id, method, parsed_tx_data) ==
    [id |-> id, type |-> "request", method |-> method,
     parsed_tx_data |-> parsed_tx_data, response |-> "",
     tx_data |-> NoneVal, tx_receipt |-> NoneVal]

ResponseEntry(id, method, response, tx_data, tx_receipt) ==
    [id |-> id, type |-> "response", method |-> method,
     parsed_tx_data |-> NoneVal, response |-> response,
     tx_data |-> tx_data, tx_receipt |-> tx_receipt]

\* MemoryLog.log_request and MemoryLog.log_response.
log_request(st, entry) ==
    [st EXCEPT !.log.entries = Append(@, entry)]

log_response(st, entry) ==
    [st EXCEPT !.log.entries = Append(@, entry)]

\* handle_request: decode the raw transaction if asked to (a failure is
\* caught and becomes a warning), then log the entry.
handle_request(st, id, req) ==
    LET parse == st.log.parse_raw_tx_data
                 /\ req.method = "eth_sendRawTransaction"
        parsed == IF parse THEN parse_raw_tx(req)
                  ELSE [raised |-> "", value |-> NoneVal]
        warned == IF parsed.raised # ""
                  THEN [st EXCEPT !.env.warnings = @ + 1]
                  ELSE st
    IN log_request(warned, RequestEntry(id, req.method, parsed.value))

RECURSIVE middleware(_, _)

\* w3.eth.get_transaction(hash): a call of eth_getTransactionByHash through
\* the middleware; TransactionNotFound if the node answers null.
get_transaction(st, req) ==
    LET r == middleware(st, RpcRequest("eth_getTransactionByHash", FALSE,
                                       IF req.tx_found THEN "result"
                                       ELSE "null",
                                       FALSE, FALSE, TRUE))
    IN IF r.raised # "" THEN [r EXCEPT !.value = NoneVal]
       ELSE IF req.tx_found THEN [r EXCEPT !.value = Some("tx_data")]
       ELSE [r EXCEPT !.raised = "TransactionNotFound", !.value = NoneVal]

\* w3.eth.wait_for_transaction_receipt(hash): polls eth_getTransactionReceipt
\* through the middleware; TimeExhausted if the receipt never comes.
wait_for_transaction_receipt(st, req) ==
    LET r == middleware(st, RpcRequest("eth_getTransactionReceipt", FALSE,
                                       IF req.receipt_found THEN "result"
                                       ELSE "null",
                                       FALSE, FALSE, TRUE))
    IN IF r.raised # "" THEN [r EXCEPT !.value = NoneVal]
       ELSE IF req.receipt_found THEN [r EXCEPT !.value = Some("tx_receipt")]
       ELSE [r EXCEPT !.raised = "TimeExhausted", !.value = NoneVal]

Fetched(st) == [log |-> st.log, env |-> st.env, raised |-> "", value |-> NoneVal]

\* handle_response: fetch the transaction and its receipt if asked to, then
\* log the entry.  An exception of a fetch leaves the function.
handle_response(st, id, req) ==
    LET ok == is_rpc_response_ok(req.response)
        tx_data ==
            IF ok /\ st.log.fetch_tx_data /\ req.method \in TX_WRITE_METHODS
            THEN get_transaction(st, req)
            ELSE Fetched(st)
        tx_receipt ==
            IF tx_data.raised # "" THEN tx_data
            ELSE IF ok /\ st.log.fetch_tx_receipt
                    /\ req.method \in TX_WRITE_METHODS
            THEN wait_for_transaction_receipt(tx_data, req)
            ELSE Fetched(tx_data)
    IN IF tx_receipt.raised # "" THEN tx_receipt
       ELSE log_response(Fetched(tx_receipt),
                         ResponseEntry(id, req.method, req.response,
                                       tx_data.value, tx_receipt.value))

\* The middleware: st is the log and the history before the call; the result
\* is the log and the history after it, and the exception that left the
\* middleware ("" if it returned the response).
middleware(st, req) ==
    LET request_id == Len(st.env.calls) + 1
        called == [st EXCEPT !.env.calls =
                     Append(@, [id |-> request_id, method |-> req.method,
                                nested |-> req.nested, decodes |-> req.decodes,
                                made |-> 0, returned |-> ""])]
        requested == IF should_log_request(called.log, req.method)
                     THEN handle_request(called, request_id, req)
                     ELSE called
        made == [requested EXCEPT !.env.calls[request_id].made = @ + 1]
        responded == IF should_log_response(made.log, req.method)
                     THEN handle_response(Fetched(made), request_id, req)
                     ELSE Fetched(made)
    IN IF responded.raised # "" THEN responded
       ELSE [responded EXCEPT
               !.env.calls[request_id].returned = req.response]

\* The calls of a list made one after the other, until one raises.
RECURSIVE make_requests(_, _)
make_requests(st, reqs) ==
    IF reqs = <<>> \/ st.raised # "" THEN st
    ELSE make_requests(middleware(st, Head(reqs)), Tail(reqs))

\* send_eth_in_wei: the calls build_tx_with_value_in_wei made (b is what it
\* returned), then the raw transaction is sent.
send_eth_in_wei(st, b, send) ==
    LET reqs == [i \in 1..Len(b.rpc) |->
                    RpcRequest(b.rpc[i], FALSE, "result", FALSE, FALSE, FALSE)]
    IN make_requests(st, IF b.status = "ok" THEN Append(reqs, send) ELSE reqs)

\* The arguments of the transfer: nonce, gas limit and tip left out.
TransferDefaults ==
    [nonce |-> NoneVal, gas_limit |-> NoneVal,
     max_priority_fee_in_gwei |-> NoneVal]

\* MemoryLog.get_requests and MemoryLog.get_tx_requests.
get_requests(log) == SelectSeq(log.entries, LAMBDA e : e.type = "request")

get_tx_requests(log) ==
    SelectSeq(get_requests(log), LAMBDA e : e.method \in TX_WRITE_METHODS)

\* The client that sends the transfers: BaseClient as it is, constructed
\* without a chain id or a transaction type.
TransferClients ==
    {c \in RebuildClients : IsNone(c.chain_id) /\ IsNone(c.tx_type)}

LogState == [log |-> rpc_log, env |-> rpc_env, raised |-> "", value |-> NoneVal]

\* A client with one MemoryLog attached, before any call.
LogInit ==
    /\ rpc_log \in MemoryLogs
    /\ rpc_env = NoCalls
    /\ SubIdle
    /\ BuildIdle
    /\ AuxIdle

\* The caller makes one RPC call through the middleware.
RpcCall ==
    /\ Len(rpc_env.calls) < MaxRpcCalls
    /\ \E req \in RpcRequests :
          LET r == middleware(LogState, req)
          IN /\ rpc_log' = r.log
             /\ rpc_env' = r.env
    /\ UNCHANGED <<subVars, buildVars, auxVars>>

\* What build_tx_with_value_in_wei does before a transfer is sent, over the
\* clients and the chains: whether it returns a transaction, and the RPC
\* calls it makes.
TransferBuilds ==
    {[status |-> b.status, rpc |-> b.rpc] :
        b \in {build_tx_with_value_in_wei(c, ch, "a2", 1, TransferDefaults) :
                  c \in TransferClients, ch \in Chains}}

\* The caller sends a value transfer.
SendEthInWei ==
    /\ Len(rpc_env.calls) < MaxRpcCalls
    /\ \E b \in TransferBuilds, send \in RpcRequests :
          /\ send.method = "eth_sendRawTransaction"
          /\ LET r == send_eth_in_wei(LogState, b, send)
             IN /\ rpc_log' = r.log
                /\ rpc_env' = r.env
    /\ UNCHANGED <<subVars, buildVars, auxVars>>

LogNext ==
    \/ RpcCall
    \/ SendEthInWei

(***************************************************************************)
(* Threads that build and send transactions with one client.  The nonce a  *)
(* build resolves is the transaction count the node reports for the latest *)
(* block (get_nonce); the node is the only place where the count lives.    *)
(***************************************************************************)

MaxTxCount == 3     \* transactions of the sender the node mines

Builders == {1, 2}

NotStarted == [pc |-> "idle", explicit |-> FALSE, read |-> 0, tx |-> EmptyTx]

\* The client and the node before any thread has built anything.
RaceInit ==
    /\ client \in TransferClients
    /\ chain \in Chains
    /\ built = NotBuilt
    /\ sequel = ""
    /\ race = [pool |-> {}, threads |-> [t \in Builders |-> NotStarted]]
    /\ SubIdle
    /\ LogIdle
    /\ PollIdle
    /\ CloneIdle

\* RaceBuild with a client that advances the node's count for the nonce it
\* handed out.
RaceBuild_reserves(t) ==
    /\ race.threads[t].pc = "idle"
    /\ \E a \in TransferArgs :
          LET b == build_base_tx(client, chain, a)
          IN /\ b.status = "ok"
             /\ race' = [race EXCEPT !.threads[t] =
                           [pc |-> "built", explicit |-> ~IsNone(a.nonce),
                            read |-> chain.nonce, tx |-> b.tx]]
             /\ chain' = IF IsNone(a.nonce)
                         THEN [chain EXCEPT !.nonce = @ + 1]
                         ELSE chain
    /\ UNCHANGED <<client, built, sequel>>
    /\ UNCHANGED <<subVars, logVars, poll, cloned>>

\* Thread t calls build_base_tx, which returns a transaction request.
RaceBuild(t) ==
    /\ race.threads[t].pc = "idle"
    /\ \E a \in TransferArgs :
          LET b == build_base_tx(client, chain, a)
          IN /\ b.status = "ok"
             /\ race' = [race EXCEPT !.threads[t] =
                           [pc |-> "built", explicit |-> ~IsNone(a.nonce),
                            read |-> chain.nonce, tx |-> b.tx]]
    /\ UNCHANGED <<client, chain, built, sequel>>
    /\ UNCHANGED <<subVars, logVars, poll, cloned>>

\* Thread t signs and sends the request it built (sign_and_send_tx).  The
\* node takes it into its pool unless the nonce is used up or already taken
\* by a pending transaction.
RaceSend(t) ==
    /\ race.threads[t].pc = "built"
    /\ LET nonce == race.threads[t].tx.nonce[1]
       IN IF nonce >= chain.nonce /\ nonce \notin race.pool
          THEN race' = [race EXCEPT !.pool = @ \cup {nonce},
                                    !.threads[t].pc = "sent"]
          ELSE race' = [race EXCEPT !.threads[t].pc = "rejected"]
    /\ UNCHANGED <<client, chain, built, sequel>>
    /\ UNCHANGED <<subVars, logVars, poll, cloned>>

\* The node mines the pending transaction that is next in line.
RaceMine ==
    /\ chain.nonce < MaxTxCount
    /\ chain.nonce \in race.pool
    /\ chain' = [chain EXCEPT !.nonce = @ + 1]
    /\ race' = [race EXCEPT !.pool = @ \ {chain.nonce}]
    /\ UNCHANGED <<client, built, sequel>>
    /\ UNCHANGED <<subVars, logVars, poll, cloned>>

\* Thread t is done with its transaction and free to build another one.
RaceDone(t) ==
    /\ race.threads[t].pc \in {"sent", "rejected"}
    /\ race' = [race EXCEPT !.threads[t] = NotStarted]
    /\ UNCHANGED <<client, chain, built, sequel>>
    /\ UNCHANGED <<subVars, logVars, poll, cloned>>

RaceNext ==
    \/ \E t \in Builders : RaceBuild(t)
    \/ \E t \in Builders : RaceSend(t)
    \/ RaceMine
    \/ \E t \in Builders : RaceDone(t)

(***************************************************************************)
(* BaseClient.poll_tx.  Time is counted in ticks since the call started;   *)
(* a fetch takes a tick, a sleep takes the interval or a tick more.        *)
(***************************************************************************)

MaxInterval == 2    \* the longest interval between polls, in ticks
MaxTimeout == 3     \* the longest timeout, in ticks

Intervals == {NoneVal} \cup {Some(n) : n \in 0..MaxInterval}
Timeouts == {NoneVal} \cup {Some(n) : n \in 0..MaxTimeout}

\* What w3.eth.get_transaction does: it returns the transaction, raises
\* TransactionNotFound, or raises something else (the node cannot be reached).
FetchOutcomes == {"found", "TransactionNotFound", "ConnectionError"}

\* poll_tx(tx_hash, interval, timeout) has been called.
PollInit ==
    /\ poll \in [pc : {"called"}, interval : Intervals, timeout : Timeouts,
                 elapsed : {0}, attempts : {0}, last : {""}, raised : {""}]
    /\ SubIdle
    /\ BuildIdle
    /\ LogIdle
    /\ RaceIdle
    /\ CloneIdle

\* `if interval is None: return self.get_tx(tx_hash)`, else the loop begins
\* at start_time.
PollStart ==
    /\ poll.pc = "called"
    /\ poll' = [poll EXCEPT !.pc = IF IsNone(poll.interval) THEN "single"
                                   ELSE "try"]
    /\ UNCHANGED <<subVars, buildVars, logVars, race, cloned>>

\* get_tx: one fetch.  Without polling its outcome is the outcome of the
\* call; in the loop only TransactionNotFound is caught.
GetTx ==
    /\ poll.pc \in {"single", "try"}
    /\ \E o \in FetchOutcomes :
          poll' = [poll EXCEPT
                     !.attempts = @ + 1,
                     !.elapsed = @ + 1,
                     !.last = o,
                     !.pc = IF o = "found" THEN "returned"
                            ELSE IF o = "TransactionNotFound" /\ poll.pc = "try"
                            THEN "sleep"
                            ELSE "raised",
                     !.raised = IF o = "found" THEN ""
                                ELSE IF o = "TransactionNotFound"
                                        /\ poll.pc = "try"
                                THEN ""
                                ELSE o]
    /\ UNCHANGED <<subVars, buildVars, logVars, race, cloned>>

\* time.sleep(interval).
Sleep ==
    /\ poll.pc = "sleep"
    /\ \E late \in 0..1 :
          poll' = [poll EXCEPT !.pc = "check",
                               !.elapsed = @ + poll.interval[1] + late]
    /\ UNCHANGED <<subVars, buildVars, logVars, race, cloned>>

\* `if time.time() - start_time > timeout: raise e`; comparing a float with
\* None raises TypeError.
CheckTimeout ==
    /\ poll.pc = "check"
    /\ poll' = IF IsNone(poll.timeout)
               THEN [poll EXCEPT !.pc = "raised", !.raised = "TypeError"]
               ELSE IF poll.elapsed > poll.timeout[1]
               THEN [poll EXCEPT !.pc = "raised",
                                 !.raised = "TransactionNotFound"]
               ELSE [poll EXCEPT !.pc = "try"]
    /\ UNCHANGED <<subVars, buildVars, logVars, race, cloned>>

PollNext ==
    \/ PollStart
    \/ GetTx
    \/ Sleep
    \/ CheckTimeout

(***************************************************************************)
(* BaseClient.clone: a new instance of the class, constructed by __init__  *)
(* from the attributes of the original.  objects holds the instances: the  *)
(* original, then its clone.                                               *)
(***************************************************************************)

\* The attributes of a class: those of BaseClient, or those of a subclass
\* that sends legacy transactions or has an ABI.
CloneClasses ==
    [chain_id : {NoneVal}, tx_type : {Some(2), Some(0)},
     max_priority_fee_in_gwei : {gwei[1]},
     upper_limit_for_base_fee_in_gwei : {Some(Inf)},
     node_uri : {NoneVal}, private_key : {NoneVal},
     contract_address : {NoneVal}, abi : {NoneVal, Some("erc20")}]

\* The arguments of the constructor.
CloneArgs ==
    [chain_id : {NoneVal, Some(1)}, tx_type : {NoneVal, Some(0), Some(1)},
     max_priority_fee_in_gwei : {NoneVal, Some(gwei[0])},
     upper_limit_for_base_fee_in_gwei : {NoneVal, Some(gwei[MaxFeeWei])},
     node_uri : {NoneVal, Some("ws://node")},
     private_key : {NoneVal, Some("key")},
     contract_address : {NoneVal, Some("a1")},
     abi : {NoneVal, Some("abi")}]

\* set_contract(contract_address, abi): the ABI passed or else the one of
\* the instance; without any, Web3ClientException.  The ABI passed is used
\* for the contract object and not kept in self.abi.
set_contract(self, contract_address, abi) ==
    IF IsNone(abi) /\ IsNone(self.abi)
    THEN [raised |-> "Web3ClientException: ABI not set", self |-> self]
    ELSE [raised |-> "",
          self |-> [self EXCEPT !.contract_address =
                       Some(to_checksum_address(contract_address))]]

\* __init__(node_uri, ..., abi) of a class: the attributes of the new
\* instance, or the exception of set_contract.
new_client(a, cls) ==
    LET fees == init_attributes(
                    [chain_id |-> a.chain_id, tx_type |-> a.tx_type,
                     max_priority_fee_in_gwei |-> a.max_priority_fee_in_gwei,
                     upper_limit_for_base_fee_in_gwei |->
                         a.upper_limit_for_base_fee_in_gwei],
                    [chain_id |-> cls.chain_id, tx_type |-> cls.tx_type,
                     max_priority_fee_in_gwei |->
                         cls.max_priority_fee_in_gwei,
                     upper_limit_for_base_fee_in_gwei |->
                         cls.upper_limit_for_base_fee_in_gwei])
        self == [chain_id |-> fees.chain_id,
                 tx_type |-> fees.tx_type,
                 max_priority_fee_in_gwei |-> fees.max_priority_fee_in_gwei,
                 upper_limit_for_base_fee_in_gwei |->
                     fees.upper_limit_for_base_fee_in_gwei,
                 node_uri |-> IF IsNone(a.node_uri) THEN cls.node_uri
                              ELSE a.node_uri,
                 private_key |-> IF IsNone(a.private_key) THEN cls.private_key
                                 ELSE a.private_key,
                 contract_address |-> cls.contract_address,
                 abi |-> IF IsNone(a.abi) THEN cls.abi ELSE a.abi]
        address == IF IsNone(a.contract_address) THEN cls.contract_address
                   ELSE a.contract_address
    IN IF IsNone(address) THEN [raised |-> "", self |-> self]
       ELSE set_contract(self, address[1], NoneVal)

\* clone(): base(node_uri=self.node_uri, ..., abi=self.abi) with base the
\* class of the instance.
clone(self, cls) ==
    new_client([chain_id |-> self.chain_id, tx_type |-> self.tx_type,
                max_priority_fee_in_gwei |->
                    Some(self.max_priority_fee_in_gwei),
                upper_limit_for_base_fee_in_gwei |->
                    self.upper_limit_for_base_fee_in_gwei,
                node_uri |-> self.node_uri,
                private_key |-> self.private_key,
                contract_address |-> self.contract_address,
                abi |-> self.abi],
               cls)

\* A client fresh from its constructor.
CloneInit ==
    /\ \E a \in CloneArgs, cls \in CloneClasses :
          LET n == new_client(a, cls)
          IN /\ n.raised = ""
             /\ cloned = [cls |-> cls, objects |-> <<n.self>>,
                          snapshot |-> <<>>, born |-> <<>>, raised |-> ""]
    /\ SubIdle
    /\ BuildIdle
    /\ LogIdle
    /\ RaceIdle
    /\ PollIdle

\* The instance that is being configured: the original until it has been
\* cloned, then the clone.
Current == Len(cloned.objects)

\* make_client of web3factory: chain_id and tx_type are assigned to the
\* instance after it was constructed.
MakeClient ==
    /\ cloned.raised = ""
    /\ \E chain_id \in {Some(1)}, tx_type \in {Some(0), Some(1), Some(2)} :
          cloned' = [cloned EXCEPT !.objects[Current].chain_id = chain_id,
                                   !.objects[Current].tx_type = tx_type]
    /\ UNCHANGED <<subVars, buildVars, logVars, race, poll>>

\* set_contract is called on the instance (a call that raises changes
\* nothing).
SetContract ==
    /\ cloned.raised = ""
    /\ \E address \in {"a1", "a2"}, abi \in {NoneVal, Some("abi2")} :
          LET r == set_contract(cloned.objects[Current], address, abi)
          IN /\ r.raised = ""
             /\ cloned' = [cloned EXCEPT !.objects[Current] = r.self]
    /\ UNCHANGED <<subVars, buildVars, logVars, race, poll>>

\* unset_account is called on the instance.
UnsetAccount ==
    /\ cloned.raised = ""
    /\ cloned' = [cloned EXCEPT !.objects[Current].private_key = NoneVal]
    /\ UNCHANGED <<subVars, buildVars, logVars, race, poll>>

\* clone() is called on the original.
Clone ==
    /\ cloned.raised = ""
    /\ Len(cloned.objects) = 1
    /\ LET r == clone(cloned.objects[1], cloned.cls)
       IN cloned' = IF r.raised # ""
                    THEN [cloned EXCEPT !.raised = r.raised,
                                        !.snapshot = cloned.objects]
                    ELSE [cloned EXCEPT !.objects = Append(@, r.self),
                                        !.snapshot = cloned.objects,
                                        !.born = <<r.self>>]
    /\ UNCHANGED <<subVars, buildVars, logVars, race, poll>>

CloneNext ==
    \/ MakeClient
    \/ SetContract
    \/ UnsetAccount
    \/ Clone

vars == <<subVars, buildVars, logVars, auxVars>>

Spec == SubInit /\ [][SubNext]_vars

BuildSpec == BuildInit /\ [][BuildNext]_vars

RebuildSpec == RebuildInit /\ [][RebuildNext]_vars

LogSpec == LogInit /\ [][LogNext]_vars

CloneSpec == CloneInit /\ [][CloneNext]_vars

\* The thread that called poll_tx keeps running.
PollSpec == PollInit /\ [][PollNext]_vars /\ WF_vars(PollNext)

RaceSpec == RaceInit /\ [][RaceNext]_vars

(***************************************************************************)
(* Properties of the subscriber.                                          *)
(***************************************************************************)

\* A handling that fetched a transaction or invoked a callback.
Touched(e) ==
    e.calls = 1 \/ e.fetch # "none" \/ e.on_fetch \/ e.on_fetch_error

\* A terminated call stays terminated and opens no further connection.
TerminatedStays ==
    [][(pc \in {"Raised", "Returned"}) =>
          (pc' = pc /\ conn' = conn /\ err' = err)]_vars

\* C1: a frame triggers on_notification, a transaction fetch, tx_on_fetch or
\* tx_on_fetch_error (at once, or through the task created for it) only if
\* its params.subscription is the id the node issued in the handshake of the
\* connection it came through; every other frame is dropped with no callback.
C1_SubscriptionIdIsolation ==
    /\ (notif.created \/ Touched(notif.eff)) => notif.matched
    /\ \A i \in 1..Len(tasks) : tasks[i].matched
    /\ (notif.by = "process" /\ ~notif.matched) =>
          notif.eff \in {NoEff, Eff(ErrMalformed, "none", NoTx, FALSE, FALSE, 0, NoneVal)}

\* A frame carrying the id of the connection before the reconnect was
\* dropped, after an earlier frame had been delivered.
C1_Witness ==
    /\ notif.by = "process"
    /\ notif.stale
    /\ notif.eff = NoEff
    /\ ~notif.created
    /\ conn >= 2
    /\ hist.started >= 1

\* C2: frames are received and processed only after the handshake of the
\* current connection has bound subscription_id to the id the node issued on
\* it; with once false and no filters, the frames received under that id and
\* the invocations of on_notification (started, or waiting as a task) are
\* equal in number: none is dropped and none is duplicated.
C2_ReconnectResumesDelivery ==
    /\ pc \in {"Listening", "Processing"} =>
          node.id # 0 /\ subscription_id = node.id
    /\ (~cfg.once /\ no_tx_filters /\ pc # "Processing") =>
          hist.started + Len(tasks) = hist.matched
    /\ (~cfg.once /\ no_tx_filters /\ cfg.variant = "sync"
        /\ notif.by = "process" /\ notif.matched) =>
          notif.eff.calls = 1 /\ notif.eff.arg = NoneVal

\* After a connection loss, two frames of the new subscription were
\* delivered on the second connection.
C2_Witness ==
    /\ ~cfg.once
    /\ no_tx_filters
    /\ hist.closed = 1
    /\ conn = 2
    /\ pc = "Listening"
    /\ node.id # node.prev
    /\ node.prev # 0
    /\ hist.matched = 2
    /\ hist.started = 2

\* C3: every connection loss caught (in the handshake or while listening)
\* invokes on_connection_closed if supplied and leads back to Connecting,
\* from where a new connection is opened, however many losses came before;
\* if on_connection_closed raises, the call ends with that exception and
\* opens no further connection.
C3_ConnectionClosedReconnects ==
    /\ [](hist.closed_cb = IF cfg.on_connection_closed = "None" THEN 0
                           ELSE hist.closed)
    /\ []((cfg.on_connection_closed = "raises" /\ hist.closed >= 1) =>
             pc = "Raised" /\ err = "on_connection_closed" /\ hist.closed = 1)
    /\ [](err = "on_connection_closed" => cfg.on_connection_closed = "raises")
    /\ []((pc = "Connecting" /\ conn < MaxConn) => ENABLED Connect)
    /\ [][(hist'.closed = hist.closed + 1 /\ cfg.on_connection_closed # "raises")
             => (pc' = "Connecting" /\ err' = err)]_vars
    /\ TerminatedStays

\* Two connection losses, one in the handshake, each reported to
\* on_connection_closed, and the subscriber listening on the third connection.
C3_Witness ==
    /\ cfg.on_connection_closed = "returns"
    /\ hist.closed = 2
    /\ hist.closed_cb = 2
    /\ conn = 3
    /\ pc = "Listening"
    /\ hist.frames = 0

\* C4: with once=true the call returns only after on_notification has been
\* invoked.
C4_OnceReturnsAfterFirstCallback ==
    pc = "Returned" => hist.started >= 1

\* C5 (as stated): a response to eth_subscribe without a subscription id
\* does not end the call.
C5_HandshakeFailureIsRetried ==
    node.resp \in {"unparseable", "no_result"} => pc # "Raised"

\* C5 (amended): a response to eth_subscribe that cannot be parsed or lacks
\* 'result' ends the call with Web3ClientException: on_connection_closed is
\* not invoked for it and no further connection is opened.
C5_HandshakeFailureIsFatal ==
    /\ [](node.resp \in {"unparseable", "no_result"} =>
             pc = "Raised" /\ err = ErrSubscribe)
    /\ [][(pc = "Subscribing" /\ node'.resp \in {"unparseable", "no_result"})
             => (hist' = hist /\ conn' = conn)]_vars
    /\ TerminatedStays

\* The handshake of the second connection failed and ended the call.
C5_Witness ==
    /\ node.resp = "no_result"
    /\ pc = "Raised"
    /\ err = ErrSubscribe
    /\ conn = 2

\* Addresses are compared whatever their case.
Lower(s) ==
    CASE s = "A1" -> "a1"
      [] s = "A2" -> "a2"
      [] OTHER -> s

\* The filter as the documentation states it (None is the unset value).
PassesFilters(tx) ==
    /\ IsNone(cfg.tx_from) \/ Lower(tx.from) \in {Lower(a) : a \in cfg.tx_from[1]}
    /\ IsNone(cfg.tx_to) \/ Lower(tx.to) \in {Lower(a) : a \in cfg.tx_to[1]}
    /\ \/ IsNone(cfg.tx_value)
       \/ /\ cfg.tx_value[1][1] * WeiPerEther <= tx.value
          /\ tx.value <= cfg.tx_value[1][2] * WeiPerEther

\* C6: when the transaction of a matched notification was resolved,
\* on_notification is invoked (once, with the transaction as third argument)
\* if and only if the transaction passes every configured filter.
C6_FilterGating ==
    notif.eff.fetch = "ok" =>
        /\ ~no_tx_filters
        /\ notif.eff.calls = (IF PassesFilters(notif.eff.tx) THEN 1 ELSE 0)
        /\ notif.eff.arg = (IF PassesFilters(notif.eff.tx)
                            THEN Some(notif.eff.tx) ELSE NoneVal)

\* With the three filters set, a transaction at the upper bound of the value
\* range was delivered.
C6_Witness ==
    /\ ~IsNone(cfg.tx_from) /\ ~IsNone(cfg.tx_to) /\ ~IsNone(cfg.tx_value)
    /\ notif.eff.fetch = "ok"
    /\ notif.eff.calls = 1
    /\ notif.eff.tx.value = cfg.tx_value[1][2] * WeiPerEther

\* C7: when the transaction of a matched notification cannot be fetched,
\* tx_on_fetch_error is invoked if supplied, on_notification is not, and with
\* once false the subscriber goes on listening on the same connection.
C7_FetchFailureDropsNotification ==
    /\ [](notif.eff.fetch = "fail" =>
             /\ ~no_tx_filters
             /\ notif.eff.on_fetch_error = cfg.has_tx_on_fetch_error
             /\ ~notif.eff.on_fetch
             /\ notif.eff.calls = 0
             /\ notif.eff.raised = "")
    /\ [][(pc = "Processing" /\ notif'.by = "process"
           /\ notif'.eff.fetch = "fail" /\ ~cfg.once)
             => (/\ pc' = "Listening" /\ conn' = conn /\ err' = ""
                 /\ hist'.started = hist.started)]_vars
    /\ [][(Len(tasks') < Len(tasks) /\ notif'.eff.fetch = "fail")
             => (pc' = pc /\ conn' = conn /\ err' = err /\ hist' = hist)]_vars
    /\ []((pc = "Listening" /\ hist.frames < MaxFrames) => ENABLED Recv)

\* After a failed fetch reported to tx_on_fetch_error, the synchronous
\* subscriber received the next frame on the same connection.
C7_Witness ==
    /\ cfg.variant = "sync"
    /\ ~cfg.once
    /\ notif.eff.fetch = "fail"
    /\ notif.eff.on_fetch_error
    /\ pc = "Processing"
    /\ conn = 1
    /\ hist.frames = 2

\* C8 (as stated): a receive timeout does not end the call.
C8_TimeoutIsRetried ==
    pc = "Raised" => err # "TimeoutError"

\* C8 (amended): with ws_timeout set, a receive that times out while
\* listening ends the call with asyncio.TimeoutError: no callback is invoked
\* for it, no new connection is opened and the call does not stay blocked.
\* With ws_timeout unset the receive never times out.
C8_TimeoutIsFatal ==
    /\ [](err = "TimeoutError" => pc = "Raised" /\ ~IsNone(cfg.ws_timeout))
    /\ [][(err' = "TimeoutError" /\ err # "TimeoutError")
             => (/\ pc = "Listening"
                 /\ hist' = hist /\ notif' = notif /\ tasks' = tasks
                 /\ conn' = conn)]_vars
    /\ TerminatedStays

\* A receive timed out after a frame had been delivered.
C8_Witness ==
    /\ pc = "Raised"
    /\ err = "TimeoutError"
    /\ ~IsNone(cfg.ws_timeout)
    /\ hist.started = 1

(***************************************************************************)
(* Properties of the transaction builder.                                 *)
(***************************************************************************)

\* The whole number of wei a float of the grid is the float of.
WeiOf(x) == CHOOSE w \in WeiGrid : gwei[w] = x

\* The latest call got as far as the fee check: it resolved a supported type
\* and, for type 2, found the base fee in the latest block.
FeeChecked ==
    /\ built.status # "none"
    /\ built.tx_type \in {0, 1, 2}
    /\ built.exc.raised # "KeyError"

\* The fee the limit applies to, in wei: the base fee of the latest block for
\* type 2, the gas price of the node for types 0 and 1.
EffectiveFee ==
    IF built.tx_type = 2 THEN chain.base_fee[1] ELSE chain.gas_price

TooExpensive == built.exc.raised = "TransactionTooExpensive"

\* C9: build_base_tx raises TransactionTooExpensive if and only if the
\* effective fee (the node's gas price for types 0 and 1, the base fee of the
\* latest block for type 2) is strictly greater than the client's
\* upper_limit_for_base_fee_in_gwei: not at equality, never with the infinite
\* default (or with None); the exception carries the fee and the limit.
C9_CeilingEnforcement ==
    LET upper_limit == client.upper_limit_for_base_fee_in_gwei
        limited == ~IsNone(upper_limit) /\ upper_limit[1] # Inf
    IN /\ FeeChecked =>
            /\ TooExpensive <=>
                   (limited /\ EffectiveFee > WeiOf(upper_limit[1]))
            /\ TooExpensive =>
                   /\ built.exc.fee = Some(gwei[EffectiveFee])
                   /\ built.exc.max = upper_limit
       /\ ~FeeChecked => ~TooExpensive

\* A type-2 build refused for a base fee one wei above the limit, when twice
\* the base fee plus the tip is far above it either way.
C9_Witness ==
    /\ FeeChecked
    /\ TooExpensive
    /\ built.tx_type = 2
    /\ EffectiveFee = WeiOf(client.upper_limit_for_base_fee_in_gwei[1]) + 1

\* C10: a type-2 build sets maxFeePerGas to exactly twice the base fee of the
\* latest block plus the priority fee in effect, and maxPriorityFeePerGas to
\* that priority fee, all in wei.
C10_MaxFeeIsTwiceBasePlusPriority ==
    (built.status = "ok" /\ built.tx_type = 2) =>
        LET B == chain.base_fee[1]
            P == WeiOf(built.priority[1])
        IN /\ built.tx.maxFeePerGas = Some(2 * B + P)
           /\ built.tx.maxPriorityFeePerGas = Some(P)

\* The number of calls of RPC method m the latest build made.
Calls(b, m) == Cardinality({i \in DOMAIN b.rpc : b.rpc[i] = m})

\* C11: a transaction returned by a build carries one fee representation,
\* the one of its resolved type: gasPrice, equal to the node's gas price, and
\* no maxFeePerGas, maxPriorityFeePerGas or type tag for types 0 and 1; the
\* type tag 2, maxFeePerGas and maxPriorityFeePerGas and no gasPrice for
\* type 2.
C11_OneFeeRepresentation ==
    built.status = "ok" =>
        IF built.tx_type = 2
        THEN /\ built.tx.type = Some(2)
             /\ ~IsNone(built.tx.maxFeePerGas)
             /\ ~IsNone(built.tx.maxPriorityFeePerGas)
             /\ IsNone(built.tx.gasPrice)
        ELSE /\ built.tx_type \in {0, 1}
             /\ built.tx.gasPrice = Some(chain.gas_price)
             /\ IsNone(built.tx.maxFeePerGas)
             /\ IsNone(built.tx.maxPriorityFeePerGas)
             /\ IsNone(built.tx.type)

\* A legacy value transfer built on a chain that has EIP-1559.
C11_Witness ==
    /\ built.status = "ok"
    /\ built.method = "build_tx_with_value_in_wei"
    /\ built.tx_type = 1
    /\ supports_eip1559(chain)
    /\ built.tx.gasPrice = Some(chain.gas_price)

\* C12: a client whose tx_type is 0 builds a legacy transaction, with the
\* node's gas price, on any chain, and does not ask the node for the type.
C12_ExplicitLegacyIsNotInferred ==
    (built.status # "none" /\ client.tx_type = Some(0)) =>
        /\ built.tx_type = 0
        /\ Calls(built, "eth_getBlockByNumber") = 0
        /\ built.status = "ok" => built.tx.gasPrice = Some(chain.gas_price)

\* The probes of the latest block made to infer the type: the calls of
\* eth_getBlockByNumber but the one that fetches the base fee of a type-2
\* transaction.
Probes(b) ==
    Calls(b, "eth_getBlockByNumber") - (IF b.tx_type = 2 THEN 1 ELSE 0)

\* A step that is a build: the node is as it was.
BuildStep == chain' = chain /\ built'.status # "none"

NonFee(tx) ==
    [chainId |-> tx.chainId, from |-> tx.from, nonce |-> tx.nonce,
     gas |-> tx.gas, to |-> tx.to, value |-> tx.value]

\* C14: a build given a nonce returns it as the transaction's nonce, 0
\* included, and does not query the transaction count, which is queried when
\* the nonce is omitted; two successive builds with the same arguments,
\* a nonce among them, return transactions that differ in fee fields only.
C14_ExplicitNonceIsUsed ==
    /\ [](built.status = "ok" =>
            IF IsNone(built.args.base.nonce)
            THEN /\ Calls(built, "eth_getTransactionCount") = 1
                 /\ built.tx.nonce = Some(chain.nonce)
            ELSE /\ Calls(built, "eth_getTransactionCount") = 0
                 /\ built.tx.nonce = built.args.base.nonce)
    /\ [][(/\ built.status = "ok"
           /\ built'.status = "ok"
           /\ sequel' = "same"
           /\ ~IsNone(built'.args.base.nonce)) =>
              (NonFee(built'.tx) = NonFee(built.tx))]_vars

\* A build with the nonce 0, repeated with the same arguments.
C14_Witness ==
    /\ sequel = "same"
    /\ built.status = "ok"
    /\ built.method = "build_base_tx"
    /\ built.args.base.nonce = Some(0)
    /\ built.tx.nonce = Some(0)

\* C15: the gas_limit given to a build is the gas of the transaction, and no
\* gas is estimated for it; without a gas_limit the gas is left unset, except
\* in value transfers, where it comes from eth_estimateGas.
C15_GasLimitIsUsedAsIs ==
    built.status = "ok" =>
        LET gas_limit == built.args.base.gas_limit
        IN IF ~IsNone(gas_limit)
           THEN /\ built.tx.gas = gas_limit
                /\ Calls(built, "eth_estimateGas") = 0
           ELSE IF built.method \in {"build_tx_with_value",
                                     "build_tx_with_value_in_wei"}
           THEN /\ built.tx.gas = Some(chain.gas_estimate)
                /\ Calls(built, "eth_estimateGas") = 1
           ELSE IsNone(built.tx.gas)

(***************************************************************************)
(* Properties of the RPC log middleware.                                   *)
(***************************************************************************)

\* The method is on the allow-list of the log (None allows every method).
Allowed(method) ==
    IsNone(rpc_log.rpc_whitelist) \/ method \in rpc_log.rpc_whitelist[1]

\* The types of the entries the log holds for one call, in log order.
EntryTypes(id) ==
    LET es == SelectSeq(rpc_log.entries, LAMBDA e : e.id = id)
    IN [i \in 1..Len(es) |-> es[i].type]

\* C16: whatever calls went through the middleware, the log holds for each
\* call of an allowed method exactly its request entry followed by its
\* response entry, holds nothing for the other calls, and holds the request
\* entries in the order the calls were made.
C16_TwoEntriesPerAllowedCall ==
    /\ \A i \in 1..Len(rpc_env.calls) :
          EntryTypes(i) = IF Allowed(rpc_env.calls[i].method)
                          THEN <<"request", "response">>
                          ELSE <<>>
    /\ \A i, j \in 1..Len(rpc_log.entries) :
          (/\ i < j
           /\ rpc_log.entries[i].type = "request"
           /\ rpc_log.entries[j].type = "request")
          => rpc_log.entries[i].id < rpc_log.entries[j].id

\* C17: whatever fails while a call is logged (the decoding of its
\* parameters, the fetch of the transaction or of its receipt), the wrapped
\* request was made exactly once and its response was returned to the caller.
C17_LoggingNeverBreaksTheCall ==
    \A i \in 1..Len(rpc_env.calls) :
        /\ rpc_env.calls[i].made = 1
        /\ rpc_env.calls[i].returned # ""

TxRequestMethods == {"eth_sendRawTransaction", "eth_call", "eth_estimateGas"}

\* C18: with decoding enabled, the request entry of a call of
\* eth_sendRawTransaction (with a well-formed raw transaction), eth_call or
\* eth_estimateGas carries the decoded view of the transaction and is among
\* the entries the transaction-request query returns; the request entry of
\* any other method carries no decoded view.
C18_TxRequestsAreDecoded ==
    rpc_log.parse_raw_tx_data =>
        \A i \in 1..Len(rpc_log.entries) :
            LET e == rpc_log.entries[i]
                c == rpc_env.calls[e.id]
                tx_requests == get_tx_requests(rpc_log)
            IN e.type = "request" =>
                  IF e.method \in TxRequestMethods
                  THEN (e.method = "eth_sendRawTransaction" => c.decodes)
                       => /\ ~IsNone(e.parsed_tx_data)
                          /\ \E k \in 1..Len(tx_requests) : tx_requests[k] = e
                  ELSE IsNone(e.parsed_tx_data)

(***************************************************************************)
(* The order in which notifications are handled.                           *)
(***************************************************************************)

\* The frame being processed carries the subscription id of the loop.
OwnFrame == notification.wellformed /\ notification.sub = subscription_id

\* The receive loop of async_subscribe() got past a frame of its own.
AsyncHandled ==
    cfg.variant = "async" /\ pc = "Processing" /\ pc' # "Processing"
        /\ OwnFrame /\ err' = ""

\* C19: async_subscribe() hands every callback to a task of its own: once a
\* frame of the subscription is processed, with or without transaction
\* filters, a task for that frame is pending, no callback was started by the
\* processing, and the loop goes on to the next frame (or returns); the
\* pending tasks are in frame arrival order, and the task that starts is
\* older than every task that stays pending, so the callbacks start in
\* frame arrival order.
C19_CallbacksAreTasksStartedInOrder ==
    /\ [](\A i, j \in 1..Len(tasks) :
             i < j => tasks[i].frame < tasks[j].frame)
    /\ [][(AsyncHandled) =>
             (/\ tasks' = Append(tasks, tasks'[Len(tasks')])
              /\ tasks'[Len(tasks')].frame = hist.frames
              /\ hist'.started = hist.started
              /\ pc' \in {"Listening", "Returned"})]_vars
    /\ [][(Len(tasks') < Len(tasks)) =>
             (\E i \in 1..Len(tasks) :
                 /\ Len(tasks') = Len(tasks) - 1
                 /\ \A j \in 1..Len(tasks') :
                       /\ tasks'[j] \in {tasks[k] : k \in 1..Len(tasks)}
                       /\ tasks[i].frame < tasks'[j].frame)]_vars

\* A second frame was read and processed while the callback of the first had
\* not started; then the task of the first frame started, its callback was
\* invoked, and the task of the second frame is still pending.
C19_Witness ==
    /\ cfg.variant = "async"
    /\ ~no_tx_filters
    /\ Len(tasks) = 1
    /\ tasks[1].frame = 2
    /\ notif.by = "task"
    /\ hist.started = 1

\* The receive loop of subscribe() processes a frame.
SyncProcessing == cfg.variant = "sync" /\ pc = "Processing"

\* C20: subscribe() handles one notification at a time: nothing is ever left
\* pending in a task, a frame is read only when no frame is being handled,
\* the callbacks of a frame are invoked by the very step that processes it
\* (so before the next frame is read, without overlap and in frame arrival
\* order), and without transaction filters a frame of the subscription
\* yields exactly one on_notification(payload, subscription_type, None).
C20_OneNotificationAtATime ==
    /\ [](cfg.variant = "sync" =>
             /\ tasks = <<>>
             /\ pc = "Listening" => notification = NoNotification)
    /\ [][(SyncProcessing) =>
             (/\ pc' # "Processing"
              /\ notif'.by = "process"
              /\ hist'.started = hist.started + notif'.eff.calls
              /\ hist'.frames = hist.frames
              /\ (no_tx_filters /\ OwnFrame) =>
                    /\ notif'.eff.calls = 1
                    /\ notif'.eff.arg = NoneVal
                    /\ notif'.eff.fetch = "none")]_vars
    /\ [][(cfg.variant = "sync" /\ hist'.frames # hist.frames) =>
             (/\ pc = "Listening"
              /\ hist'.frames = hist.frames + 1
              /\ hist'.started = hist.started)]_vars

\* Two frames of the subscription were processed without transaction
\* filters, and on_notification was invoked for each.
C20_Witness ==
    /\ cfg.variant = "sync"
    /\ no_tx_filters
    /\ hist.frames = 2
    /\ hist.started = 2
    /\ notif.by = "process"
    /\ notif.eff.calls = 1
    /\ IsNone(notif.eff.arg)
    /\ pc = "Listening"

\* C21: whenever the handling of a frame ended in the error that no
\* transaction can be extracted from this kind of notification, the error
\* left the call (of subscribe() and of async_subscribe() alike), it was not
\* passed to tx_on_fetch_error, and on_notification was not invoked.
C21_UnsupportedKindReachesTheCaller ==
    notif.eff.fetch = "unsupported" =>
        /\ err = ErrNoTx
        /\ pc = "Raised"
        /\ ~notif.eff.on_fetch_error
        /\ notif.eff.calls = 0

\* C22: a build whose resolved transaction type is none of 0, 1 and 2 raises
\* the error that the type is not supported and returns no transaction; it
\* asked the node neither for the gas price, nor for the nonce, nor for a gas
\* estimate, sent nothing, and made no call twice.
C22_UnsupportedTypeRaisesAtOnce ==
    (built.status # "none" /\ built.tx_type \notin {0, 1, 2}) =>
        /\ built.status = "raised"
        /\ built.exc.raised = "Web3ClientException: not supported"
        /\ built.tx = EmptyTx
        /\ \A m \in {"eth_gasPrice", "eth_getTransactionCount",
                     "eth_estimateGas", "eth_sendRawTransaction",
                     "eth_sendTransaction"} : Calls(built, m) = 0
        /\ \A i, j \in 1..Len(built.rpc) :
              i # j => built.rpc[i] # built.rpc[j]

\* build_base_tx was called on a client configured with transaction type 3.
C22_Witness ==
    /\ built.method = "build_base_tx"
    /\ built.tx_type = 3
    /\ client.tx_type = Some(3)
    /\ built.status = "raised"

\* The configured node_uri starts with "ws" or ends with ".ipc".
WsOrIpc ==
    \/ SubSeq(cfg.node_uri, 1, 2) = <<"w", "s">>
    \/ /\ Len(cfg.node_uri) >= 4
       /\ SubSeq(cfg.node_uri, Len(cfg.node_uri) - 3, Len(cfg.node_uri))
              = <<".", "i", "p", "c">>

\* C23: with a node_uri that neither starts with "ws" nor ends with ".ipc",
\* subscribe() and async_subscribe() do nothing but raise ValueError: no
\* connection is ever opened, no handshake made, no frame read, no task
\* created and no callback invoked; and ValueError is raised for no other
\* node_uri.
C23_NotAWebsocketUriIsFatal ==
    /\ ~WsOrIpc =>
          /\ pc \in {"Start", "Raised"}
          /\ pc = "Raised" => err = "ValueError"
          /\ conn = 0
          /\ subscription_id = 0
          /\ node.resp = ""
          /\ tasks = <<>>
          /\ notif.by = ""
          /\ hist.frames = 0 /\ hist.started = 0
          /\ hist.closed = 0 /\ hist.closed_cb = 0
    /\ err = "ValueError" => ~WsOrIpc

\* async_subscribe() raised ValueError for an http node_uri.
C23_Witness ==
    /\ cfg.node_uri = HttpUri
    /\ cfg.variant = "async"
    /\ pc = "Raised"
    /\ err = "ValueError"

(***************************************************************************)
(* Properties of concurrent builds.                                        *)
(***************************************************************************)

\* Thread t holds a request built without a nonce of the caller's.
BuiltUnaided(t) ==
    race.threads[t].pc # "idle" /\ ~race.threads[t].explicit

\* C24: the client keeps no count of its own: a request built without a
\* nonce of the caller's carries the transaction count the node reported
\* when it was built, whatever the client built or sent before; and a build
\* changes neither the client nor the node, so it does not change the nonce
\* that later builds read.
C24_BuildsShareTheNodesCount ==
    /\ [](\A t \in Builders :
             BuiltUnaided(t) =>
                 race.threads[t].tx.nonce = Some(race.threads[t].read))
    /\ [][(\E t \in Builders :
              race.threads[t].pc = "idle" /\ race'.threads[t].pc = "built")
          => (chain' = chain /\ client' = client
              /\ race'.pool = race.pool)]_vars

\* Two threads built without a nonce of their own, both read the same count
\* and hold requests with the same nonce; both sent, and the node took the
\* first and rejected the second.
C24_Witness ==
    /\ BuiltUnaided(1) /\ BuiltUnaided(2)
    /\ race.threads[1].tx.nonce = race.threads[2].tx.nonce
    /\ race.threads[1].read = race.threads[2].read
    /\ race.threads[1].pc = "sent"
    /\ race.threads[2].pc = "rejected"

(***************************************************************************)
(* More properties of the subscriber.                                      *)
(***************************************************************************)

\* C25: when async_subscribe() with once and without transaction filters has
\* returned, no callback is merely scheduled: the on_notification coroutine
\* of the notification it returned for has been started.
C25_OnceReturnsAfterTheCallbackStarted ==
    (cfg.variant = "async" /\ cfg.once /\ no_tx_filters /\ pc = "Returned")
        => tasks = <<>>

(***************************************************************************)
(* More properties of the RPC log middleware.                              *)
(***************************************************************************)

\* The positions in the log of the entries of one type with one id.
Positions(type, id) ==
    {i \in 1..Len(rpc_log.entries) :
        rpc_log.entries[i].type = type /\ rpc_log.entries[i].id = id}

EntryIds == {rpc_log.entries[i].id : i \in 1..Len(rpc_log.entries)}

\* C26: in the entries of a MemoryLog, nested calls included: distinct calls
\* have distinct ids; an id has at most one request entry and at most one
\* response entry, and its response entry comes after its request entry;
\* the pairs are properly nested (a call whose request lies between the
\* request and the response of another call has its response there too);
\* and every step leaves the entries it found in place, unchanged, adding
\* new ones at the end only.
C26_EntriesArePairedNestedAndKept ==
    /\ [](/\ \A i, j \in 1..Len(rpc_env.calls) :
                i # j => rpc_env.calls[i].id # rpc_env.calls[j].id
          /\ \A a \in EntryIds :
                /\ Cardinality(Positions("request", a)) <= 1
                /\ Cardinality(Positions("response", a)) <= 1
                /\ \A p \in Positions("response", a) :
                      \E q \in Positions("request", a) : q < p
          /\ \A a, b \in EntryIds :
                \A ra \in Positions("request", a),
                   pa \in Positions("response", a),
                   rb \in Positions("request", b) :
                      (ra < rb /\ rb < pa) =>
                          \E pb \in Positions("response", b) : pb < pa)
    /\ [][/\ Len(rpc_log'.entries) >= Len(rpc_log.entries)
          /\ SubSeq(rpc_log'.entries, 1, Len(rpc_log.entries))
                = rpc_log.entries]_vars

\* The log holds the entries of a call in which the transaction was fetched:
\* the request of the call, the request and the response of the fetch, the
\* response of the call.
C26_Witness ==
    /\ Len(rpc_log.entries) = 4
    /\ rpc_log.entries[1].id = rpc_log.entries[4].id
    /\ rpc_log.entries[2].id = rpc_log.entries[3].id
    /\ rpc_log.entries[1].id # rpc_log.entries[2].id
    /\ rpc_log.entries[2].method = "eth_getTransactionByHash"
    /\ rpc_log.entries[4].type = "response"
    /\ ~IsNone(rpc_log.entries[4].tx_data)

(***************************************************************************)
(* More properties of the transaction builder.                             *)
(***************************************************************************)

\* C27: in a build of type 2 that was passed a priority fee P, 0 included,
\* P is the fee used: maxPriorityFeePerGas is P in wei and maxFeePerGas is
\* twice the base fee plus P, in wei.  The default of the client is used
\* only when no fee was passed.
C27_ThePassedPriorityFeeIsUsed ==
    (/\ built.status = "ok"
     /\ built.tx_type = 2
     /\ ~IsNone(built.args.base.max_priority_fee_in_gwei)) =>
        LET P == built.args.base.max_priority_fee_in_gwei[1]
        IN /\ built.priority = Some(P)
           /\ built.tx.maxPriorityFeePerGas = Some(to_wei(P))
           /\ built.tx.maxFeePerGas =
                 Some(to_wei(estimate_max_fee_in_gwei(chain, P).max_fee))

\* The calls made from within call j: the nested calls that follow it, up to
\* the next call of the caller.
Children(j) ==
    {k \in (j + 1)..Len(rpc_env.calls) :
        \A m \in (j + 1)..k : rpc_env.calls[m].nested}

\* What makes handle_response fetch after call j: the response is logged, it
\* is not an error or a null result, and the method sends a transaction.
MayFetch(j) ==
    /\ should_log_response(rpc_log, rpc_env.calls[j].method)
    /\ rpc_env.calls[j].returned \notin {"error", "null"}
    /\ rpc_env.calls[j].method \in TX_WRITE_METHODS

\* C28: a response entry carries tx_data (tx_receipt) only if the log has
\* fetch_tx_data (fetch_tx_receipt) on, the response has no error and a
\* result that is not null, and the method is eth_sendRawTransaction or
\* eth_sendTransaction; in every other case the field is None and the call
\* makes no extra RPC call for it.
C28_FetchedOnlyForSuccessfulSends ==
    /\ \A i \in 1..Len(rpc_log.entries) :
          LET e == rpc_log.entries[i]
          IN /\ ~IsNone(e.tx_data) =>
                   /\ e.type = "response"
                   /\ rpc_log.fetch_tx_data
                   /\ e.response = "result"
                   /\ e.method \in TX_WRITE_METHODS
             /\ ~IsNone(e.tx_receipt) =>
                   /\ e.type = "response"
                   /\ rpc_log.fetch_tx_receipt
                   /\ e.response = "result"
                   /\ e.method \in TX_WRITE_METHODS
    /\ \A j \in 1..Len(rpc_env.calls) :
          ~rpc_env.calls[j].nested =>
             LET fetches(method) ==
                     Cardinality({k \in Children(j) :
                                     rpc_env.calls[k].method = method})
             IN /\ fetches("eth_getTransactionByHash") <=
                      IF rpc_log.fetch_tx_data /\ MayFetch(j) THEN 1 ELSE 0
                /\ fetches("eth_getTransactionReceipt") <=
                      IF rpc_log.fetch_tx_receipt /\ MayFetch(j) THEN 1 ELSE 0

\* A log with fetch_tx_data on and fetch_tx_receipt off after two sends: the
\* node refused the first, whose response entry has no tx_data and which
\* made no other call; it took the second, whose response entry has the
\* transaction but no receipt.
C28_Witness ==
    /\ rpc_log.fetch_tx_data /\ ~rpc_log.fetch_tx_receipt
    /\ Len(rpc_env.calls) = 3
    /\ ~rpc_env.calls[2].nested
    /\ Len(rpc_log.entries) = 6
    /\ rpc_log.entries[2].type = "response"
    /\ rpc_log.entries[2].method \in TX_WRITE_METHODS
    /\ rpc_log.entries[2].response \in {"error", "null"}
    /\ IsNone(rpc_log.entries[2].tx_data)
    /\ rpc_log.entries[6].type = "response"
    /\ rpc_log.entries[6].method \in TX_WRITE_METHODS
    /\ ~IsNone(rpc_log.entries[6].tx_data)
    /\ IsNone(rpc_log.entries[6].tx_receipt)

(***************************************************************************)
(* Properties of poll_tx.                                                  *)
(***************************************************************************)

PollDone == poll.pc \in {"returned", "raised"}

\* C29: poll_tx ends whenever the timeout is finite.  It fetches at least
\* once; it returns as soon as a fetch succeeds; it raises at once what a
\* fetch raised other than TransactionNotFound; it fetches again after a
\* TransactionNotFound only while the time elapsed does not exceed the
\* timeout, and raises TransactionNotFound once it does; with interval None
\* it fetches exactly once; with timeout None it polls until the fetch
\* succeeds, so that it never ends with TransactionNotFound or with an
\* exception of its own.
C29_PollTxPollsUntilTheTimeout ==
    /\ [](/\ PollDone => poll.attempts >= 1
          /\ (PollDone /\ IsNone(poll.interval)) => poll.attempts = 1
          /\ poll.last = "found" <=> poll.pc = "returned"
          /\ poll.pc = "raised" =>
                /\ poll.raised = poll.last
                /\ poll.raised \in {"TransactionNotFound", "ConnectionError"}
          /\ poll.last = "ConnectionError" => poll.pc = "raised"
          /\ (poll.pc = "raised" /\ poll.raised = "TransactionNotFound"
                /\ ~IsNone(poll.interval)) =>
                   /\ ~IsNone(poll.timeout)
                   /\ poll.elapsed > poll.timeout[1]
          /\ (poll.pc = "try" /\ poll.attempts > 0 /\ ~IsNone(poll.timeout))
                => poll.elapsed <= poll.timeout[1])
    /\ (~IsNone(poll.timeout)) ~> PollDone

(***************************************************************************)
(* Properties of clone.                                                    *)
(***************************************************************************)

\* C30: however the client was configured, clone() returns a new client
\* whose node_uri, chain_id, tx_type, private_key, max_priority_fee_in_gwei,
\* upper_limit_for_base_fee_in_gwei, contract_address and abi are those of
\* the original, falsy values included; and what is done to the clone
\* afterwards leaves the attributes of the original as they were.
C30_TheCloneEqualsTheOriginal ==
    Len(cloned.snapshot) = 1 =>
        /\ cloned.raised = ""
        /\ Len(cloned.born) = 1
        /\ cloned.born[1] = cloned.snapshot[1]
        /\ cloned.objects[1] = cloned.snapshot[1]

====
